---------------------------- MODULE Spec2Model ----------------------------
(***************************************************************************)
(* A model of the Mython interpreter (Stats-M/cpp-mython).                 *)
(*                                                                         *)
(*  - the lexer (src/mython/lexer.cpp): the input stream, the passes of    *)
(*    the main loop of Lexer::ParseInputStream, the finalisation and the   *)
(*    token cursor;                                                        *)
(*  - the runtime (runtime.cpp) and the executable nodes of the syntax     *)
(*    tree (statement.cpp): holders, closures, classes, instances and the  *)
(*    Execute methods, run one top-level statement at a time.              *)
(***************************************************************************)
EXTENDS Integers, Sequences, FiniteSets, TLC

VARIABLES
    input,                   \* the bytes of the std::istream handed to the Lexer
    istr,                    \* the stream: read position and iostate bits
    tokens_,                 \* Lexer::tokens_
    global_indent_counter_,  \* Lexer::global_indent_counter_
    current_token_it_,       \* Lexer::current_token_it_ (1-based index into tokens_)
    pc,                      \* position inside Lexer::Lexer / ParseInputStream
    err,                     \* the exception that left the constructor, or "none"
    returned,                \* the value returned by the last NextToken() call
    ncalls,                  \* number of NextToken() calls made so far
    iter_mark,               \* stream position at the start of the current loop iteration
    last_indent,             \* what the last ParseNewLine call saw and did
    closure,                 \* the global Closure of the running program
    instances,               \* the ClassInstance objects, by owning NewInstance node
    output,                  \* what the program has written to the output stream
    status,                  \* "ok", or how the program ended
    what,                    \* what() of the std::runtime_error that ended it
    last,                    \* the top-level statement executed last
    steps,                   \* number of top-level statements executed
    aliased,                 \* y = x has run with x an instance, neither rebound since
    news,                    \* record of the NewInstance::Execute calls made
    last_bodies,             \* MethodBody::Execute calls made by the last statement
    cls_                     \* classes whose ClassDefinition node's cls_ is not empty

lexvars == <<input, istr, tokens_, global_indent_counter_, current_token_it_,
             pc, err, returned, ncalls, iter_mark, last_indent>>

runvars == <<closure, instances, output, status, what, last, steps, aliased, news,
             last_bodies, cls_>>

vars == <<lexvars, runvars>>

-----------------------------------------------------------------------------
(* Bounds of the model.                                                    *)

MaxLines == 3
MaxSpaces == 3
MaxCalls == 3
MaxLen == 4
MaxSteps == 5
MaxStatements == 2

(* Program constants.                                                      *)

SPACES_PER_INDENT == 2

-----------------------------------------------------------------------------
(* Characters.  A byte is a one-character string; EOF is                   *)
(* std::char_traits<char>::eof().                                          *)

EOF == "EOF"

Letters == {"a", "b", "n", "t", "r"}
Digits == {"0", "1", "2", "9"}
Puncts == {"#", "=", "!", "<", ">", ":", "'", "\"", "\\", "_", "+", "."}

IsAlpha(c) == c \in Letters
IsDigit(c) == c \in Digits
IsAlnum(c) == IsAlpha(c) \/ IsDigit(c)
IsPunct(c) == c \in Puncts

-----------------------------------------------------------------------------
(* std::istream over a fixed buffer (std::istringstream).                  *)
(* bits is the iostate: a subset of {"eof", "fail", "bad"}.                *)

Good(s) == s.bits = {}

StreamOk(s) == s.bits \cap {"fail", "bad"} = {}

SetState(s, b) == [s EXCEPT !.bits = @ \cup b]

AtEnd(s) == s.pos >= Len(input)

Peek(s) ==
    IF ~Good(s) THEN [s |-> SetState(s, {"fail"}), c |-> EOF]
    ELSE IF AtEnd(s) THEN [s |-> SetState(s, {"eof"}), c |-> EOF]
    ELSE [s |-> s, c |-> input[s.pos + 1]]

Get(s) ==
    IF ~Good(s) THEN [s |-> SetState(s, {"fail"}), c |-> EOF, ok |-> FALSE]
    ELSE IF AtEnd(s) THEN [s |-> SetState(s, {"eof", "fail"}), c |-> EOF, ok |-> FALSE]
    ELSE [s |-> [s EXCEPT !.pos = @ + 1], c |-> input[s.pos + 1], ok |-> TRUE]

Putback(s, c) ==
    LET s1 == [s EXCEPT !.bits = @ \ {"eof"}] IN
    IF ~Good(s1) THEN SetState(s1, {"fail"})
    ELSE IF s1.pos > 0 /\ input[s1.pos] = c THEN [s1 EXCEPT !.pos = @ - 1]
    ELSE SetState(s1, {"bad"})

RECURSIVE GetLine(_, _)
GetLine(s, n) ==
    IF ~Good(s) THEN SetState(s, {"fail"})
    ELSE IF AtEnd(s) THEN SetState(s, IF n = 0 THEN {"eof", "fail"} ELSE {"eof"})
    ELSE IF input[s.pos + 1] = "\n" THEN [s EXCEPT !.pos = @ + 1]
    ELSE GetLine([s EXCEPT !.pos = @ + 1], n + 1)

-----------------------------------------------------------------------------
(* Tokens.                                                                 *)

Tok(t) == [type |-> t]
IdTok(v) == [type |-> "Id", value |-> v]
CharTok(c) == [type |-> "Char", value |-> c]
StringTok(v) == [type |-> "String", value |-> v]
NumberTok(n) == [type |-> "Number", num |-> n]

keywords_map_ ==
    [w \in {"class", "return", "if", "else", "def", "print", "and", "or", "not",
            "None", "True", "False"} |->
        CASE w = "class" -> Tok("Class")
          [] w = "return" -> Tok("Return")
          [] w = "if" -> Tok("If")
          [] w = "else" -> Tok("Else")
          [] w = "def" -> Tok("Def")
          [] w = "print" -> Tok("Print")
          [] w = "and" -> Tok("And")
          [] w = "or" -> Tok("Or")
          [] w = "not" -> Tok("Not")
          [] w = "None" -> Tok("None")
          [] w = "True" -> Tok("True")
          [] w = "False" -> Tok("False")]

IsNewline(t) == t.type = "Newline"

LastIsNewline(toks) == Len(toks) > 0 /\ IsNewline(toks[Len(toks)])

-----------------------------------------------------------------------------
(* The passes.  Each takes and returns the lexer state                     *)
(*   L = [istr, tokens, gic, err]                                          *)
(* (stream, tokens_, global_indent_counter_, exception thrown).            *)

Throw(L, e) == [L EXCEPT !.err = e]

RECURSIVE TrimSpaces(_)
TrimSpaces(s) ==
    LET p == Peek(s) IN
    IF p.c = " " THEN TrimSpaces(Get(p.s).s) ELSE p.s

(* The while loop of ParseIndent that counts the leading spaces: returns   *)
(* the stream, the count and the last value of ch.                         *)
RECURSIVE ReadSpaces(_, _)
ReadSpaces(s, n) ==
    LET g == Get(s) IN
    IF g.ok /\ g.c = " " THEN ReadSpaces(g.s, n + 1)
    ELSE [s |-> g.s, n |-> n, ch |-> IF g.ok THEN g.c ELSE " "]

RECURSIVE EmitIndents(_, _)
EmitIndents(L, spaces_processed) ==
    IF spaces_processed > 0
    THEN EmitIndents([L EXCEPT !.tokens = Append(@, Tok("Indent")), !.gic = @ + 1],
                     spaces_processed - SPACES_PER_INDENT)
    ELSE L

(* A variant that appends the Dedent tokens and leaves the counter alone.  *)
RECURSIVE EmitDedents_KeepsCounter(_, _)
EmitDedents_KeepsCounter(L, spaces_processed) ==
    IF spaces_processed > 0
    THEN EmitDedents_KeepsCounter([L EXCEPT !.tokens = Append(@, Tok("Dedent"))],
                                  spaces_processed - SPACES_PER_INDENT)
    ELSE L

RECURSIVE EmitDedents(_, _)
EmitDedents(L, spaces_processed) ==
    IF spaces_processed > 0
    THEN EmitDedents([L EXCEPT !.tokens = Append(@, Tok("Dedent")), !.gic = @ - 1],
                     spaces_processed - SPACES_PER_INDENT)
    ELSE L

CheckNegativeIndent(L) ==
    IF L.gic < 0 THEN Throw(L, "LexerError") ELSE L

ParseIndent_NoBlankCheck(L) ==
    LET p == Peek(L.istr) IN
    IF p.c = EOF THEN [L EXCEPT !.istr = p.s]
    ELSE
      LET r == ReadSpaces(p.s, 0)
          s1 == IF r.s.bits # {"eof"} THEN Putback(r.s, r.ch) ELSE r.s
          L1 == [L EXCEPT !.istr = s1]
      IN CheckNegativeIndent(
           IF L.gic * SPACES_PER_INDENT < r.n
           THEN EmitIndents(L1, r.n - L.gic * SPACES_PER_INDENT)
           ELSE IF L.gic * SPACES_PER_INDENT > r.n
           THEN EmitDedents(L1, L.gic * SPACES_PER_INDENT - r.n)
           ELSE L1)

ParseIndent_Floor(L) ==
    LET p == Peek(L.istr) IN
    IF p.c = EOF THEN [L EXCEPT !.istr = p.s]
    ELSE
      LET r == ReadSpaces(p.s, 0)
          putback == r.s.bits # {"eof"}
          s1 == IF putback THEN Putback(r.s, r.ch) ELSE r.s
          L1 == [L EXCEPT !.istr = s1]
          n == r.n \div SPACES_PER_INDENT
      IN IF putback /\ r.ch = "\n" THEN L1
         ELSE CheckNegativeIndent(
           IF L.gic < n
           THEN EmitIndents(L1, (n - L.gic) * SPACES_PER_INDENT)
           ELSE IF L.gic > n
           THEN EmitDedents(L1, (L.gic - n) * SPACES_PER_INDENT)
           ELSE L1)

ParseIndent(L) ==
    LET p == Peek(L.istr) IN
    IF p.c = EOF THEN [L EXCEPT !.istr = p.s]
    ELSE
      LET r == ReadSpaces(p.s, 0)
          putback == r.s.bits # {"eof"}
          s1 == IF putback THEN Putback(r.s, r.ch) ELSE r.s
          L1 == [L EXCEPT !.istr = s1]
      IN IF putback /\ r.ch = "\n" THEN L1
         ELSE CheckNegativeIndent(
           IF L.gic * SPACES_PER_INDENT < r.n
           THEN EmitIndents(L1, r.n - L.gic * SPACES_PER_INDENT)
           ELSE IF L.gic * SPACES_PER_INDENT > r.n
           THEN EmitDedents(L1, L.gic * SPACES_PER_INDENT - r.n)
           ELSE L1)

EscapeChar(esc_ch) ==
    CASE esc_ch = "n" -> "\n"
      [] esc_ch = "t" -> "\t"
      [] esc_ch = "r" -> "\r"
      [] esc_ch = "\"" -> "\""
      [] esc_ch = "'" -> "'"
      [] esc_ch = "\\" -> "\\"
      [] OTHER -> "?"

IsEscape(esc_ch) == esc_ch \in {"n", "t", "r", "\"", "'", "\\"}

(* The while loop of ParseString.  any is TRUE when no byte has been read  *)
(* into ch yet; uninit is the outcome of comparing open_char with a ch     *)
(* that was never written.                                                 *)
RECURSIVE ReadString(_, _, _, _, _, _)
ReadString(L, s, open_char, result, any, uninit) ==
    LET g == Get(s) IN
    IF ~g.ok THEN
        IF ~any /\ uninit
        THEN [L EXCEPT !.istr = g.s, !.tokens = Append(@, StringTok(result))]
        ELSE Throw([L EXCEPT !.istr = g.s], "LexerError")
    ELSE IF g.c = open_char THEN
        [L EXCEPT !.istr = g.s, !.tokens = Append(@, StringTok(result))]
    ELSE IF g.c = "\\" THEN
        LET e == Get(g.s) IN
        IF e.ok THEN
            IF IsEscape(e.c)
            THEN ReadString(L, e.s, open_char, result \o EscapeChar(e.c), TRUE, uninit)
            ELSE Throw([L EXCEPT !.istr = e.s], "logic_error")
        ELSE Throw([L EXCEPT !.istr = e.s], "LexerError")
    ELSE IF g.c \in {"\n", "\r"} THEN Throw([L EXCEPT !.istr = g.s], "LexerError")
    ELSE ReadString(L, g.s, open_char, result \o g.c, TRUE, uninit)

ParseString(L, uninit) ==
    LET p == Peek(L.istr) IN
    IF p.c = EOF THEN [L EXCEPT !.istr = p.s]
    ELSE
      LET g == Get(p.s) IN
      IF g.c \in {"'", "\""}
      THEN ReadString(L, g.s, g.c, "", FALSE, uninit)
      ELSE [L EXCEPT !.istr = Putback(g.s, g.c)]

RECURSIVE ReadWord(_, _)
ReadWord(s, keyword) ==
    LET g == Get(s) IN
    IF ~g.ok THEN [s |-> g.s, w |-> keyword]
    ELSE IF IsAlnum(g.c) \/ g.c = "_" THEN ReadWord(g.s, keyword \o g.c)
    ELSE [s |-> Putback(g.s, g.c), w |-> keyword]

ParseKeywords(L) ==
    LET p == Peek(L.istr) IN
    IF p.c = EOF THEN [L EXCEPT !.istr = p.s]
    ELSE IF IsAlpha(p.c) \/ p.c = "_" THEN
      LET r == ReadWord(p.s, "") IN
      [L EXCEPT !.istr = r.s,
                !.tokens = Append(@, IF r.w \in DOMAIN keywords_map_
                                     THEN keywords_map_[r.w] ELSE IdTok(r.w))]
    ELSE [L EXCEPT !.istr = p.s]

ParseComments(L) ==
    LET p == Peek(L.istr) IN
    IF p.c = "#" THEN
      LET s1 == GetLine(p.s, 0) IN
      [L EXCEPT !.istr = IF s1.bits # {"eof"} THEN Putback(s1, "\n") ELSE s1]
    ELSE [L EXCEPT !.istr = p.s]

CompoundTok(ch) ==
    CASE ch = "=" -> Tok("Eq")
      [] ch = "!" -> Tok("NotEq")
      [] ch = ">" -> Tok("GreaterOrEq")
      [] ch = "<" -> Tok("LessOrEq")

ParseChars(L) ==
    LET p == Peek(L.istr) IN
    IF p.c = EOF THEN [L EXCEPT !.istr = p.s]
    ELSE
      LET g == Get(p.s) IN
      IF IsPunct(g.c) THEN
        IF g.c = "#" THEN ParseComments([L EXCEPT !.istr = Putback(g.s, g.c)])
        ELSE IF g.c \in {"=", "!", ">", "<"} THEN
          LET q == Peek(g.s) IN
          IF q.c = "="
          THEN [L EXCEPT !.istr = Get(q.s).s, !.tokens = Append(@, CompoundTok(g.c))]
          ELSE [L EXCEPT !.istr = q.s, !.tokens = Append(@, CharTok(g.c))]
        ELSE [L EXCEPT !.istr = g.s, !.tokens = Append(@, CharTok(g.c))]
      ELSE [L EXCEPT !.istr = Putback(g.s, g.c)]

RECURSIVE ReadDigits(_, _)
ReadDigits(s, result) ==
    LET g == Get(s) IN
    IF ~g.ok THEN [s |-> g.s, d |-> result]
    ELSE IF IsDigit(g.c) THEN ReadDigits(g.s, Append(result, g.c))
    ELSE [s |-> Putback(g.s, g.c), d |-> result]

DigitValue(c) ==
    CASE c = "0" -> 0 [] c = "1" -> 1 [] c = "2" -> 2 [] c = "9" -> 9

RECURSIVE DecimalValue(_)
DecimalValue(d) ==
    IF d = <<>> THEN 0
    ELSE 10 * DecimalValue(SubSeq(d, 1, Len(d) - 1)) + DigitValue(d[Len(d)])

INT_MAX == 2147483647

(* std::stoi: the value, or std::out_of_range when it does not fit an int. *)
ParseNumbers(L) ==
    LET p == Peek(L.istr) IN
    IF p.c = EOF THEN [L EXCEPT !.istr = p.s]
    ELSE IF IsDigit(p.c) THEN
      LET r == ReadDigits(p.s, <<>>)
          v == DecimalValue(r.d)
      IN IF v > INT_MAX THEN Throw([L EXCEPT !.istr = r.s], "out_of_range")
         ELSE [L EXCEPT !.istr = r.s, !.tokens = Append(@, NumberTok(v))]
    ELSE [L EXCEPT !.istr = p.s]

ParseNewLine_NoCollapse(L) ==
    LET p == Peek(L.istr) IN
    IF p.c = "\n" THEN
      LET g == Get(p.s)
          toks == IF Len(L.tokens) > 0
                  THEN Append(L.tokens, Tok("Newline")) ELSE L.tokens
      IN ParseIndent([L EXCEPT !.istr = g.s, !.tokens = toks])
    ELSE [L EXCEPT !.istr = p.s]

ParseNewLine(L) ==
    LET p == Peek(L.istr) IN
    IF p.c = "\n" THEN
      LET g == Get(p.s)
          toks == IF Len(L.tokens) > 0 /\ ~LastIsNewline(L.tokens)
                  THEN Append(L.tokens, Tok("Newline")) ELSE L.tokens
      IN ParseIndent([L EXCEPT !.istr = g.s, !.tokens = toks])
    ELSE [L EXCEPT !.istr = p.s]

RECURSIVE DrainIndents(_)
DrainIndents(L) ==
    IF L.gic > 0
    THEN DrainIndents([L EXCEPT !.tokens = Append(@, Tok("Dedent")), !.gic = @ - 1])
    ELSE L

Finalise_NoDrain(L) ==
    LET L1 == IF Len(L.tokens) > 0 /\ ~LastIsNewline(L.tokens)
              THEN [L EXCEPT !.tokens = Append(@, Tok("Newline"))] ELSE L
    IN [L1 EXCEPT !.tokens = Append(@, Tok("Eof"))]

(* The tail of ParseInputStream, after the main loop.                      *)
Finalise(L) ==
    LET L1 == IF Len(L.tokens) > 0 /\ ~LastIsNewline(L.tokens)
              THEN [L EXCEPT !.tokens = Append(@, Tok("Newline"))] ELSE L
        L2 == DrainIndents(L1)
    IN [L2 EXCEPT !.tokens = Append(@, Tok("Eof"))]

NextTokenIndex_StopsEarly(it, toks) ==
    IF it + 1 >= Len(toks) THEN it ELSE it + 1

(* Lexer::NextToken: the new position of current_token_it_.                *)
NextTokenIndex(it, toks) ==
    IF it + 1 = Len(toks) + 1 THEN it ELSE it + 1

-----------------------------------------------------------------------------
(* Inputs: programs built from at most MaxLines lines, each a run of at    *)
(* most MaxSpaces spaces followed by a body, with or without the newline   *)
(* after the last line.                                                    *)

RECURSIVE Spaces(_)
Spaces(n) == IF n = 0 THEN <<>> ELSE <<" ">> \o Spaces(n - 1)

Bodies == {<<>>, <<"a">>, <<"#">>}

LineSet == {Spaces(s) \o b : s \in 0..MaxSpaces, b \in Bodies}

RECURSIVE JoinLines(_)
JoinLines(ls) ==
    IF ls = <<>> THEN <<>> ELSE ls[1] \o <<"\n">> \o JoinLines(Tail(ls))

WithoutLast(w) == SubSeq(w, 1, Len(w) - 1)

(* Inputs: every byte string of at most MaxLen bytes over Alphabet.        *)

Alphabet == {"a", "1", "=", "#", "'", "\\", " ", "\n", "\t"}

RECURSIVE StringsUpTo(_)
StringsUpTo(n) ==
    IF n = 0 THEN {<<>>}
    ELSE LET shorter == StringsUpTo(n - 1) IN
         shorter \cup {Append(w, c) : w \in {v \in shorter : Len(v) = n - 1}, c \in Alphabet}

CharInputs == StringsUpTo(MaxLen)

-----------------------------------------------------------------------------
(* The runtime: values, classes, instances.                                *)
(*                                                                         *)
(* An ObjectHolder is None or an object.  A holder over a ClassInstance    *)
(* names the instance by the NewInstance node that owns it: the only       *)
(* instances of a program are the class_instance_ members of its           *)
(* NewInstance nodes, handed out with ObjectHolder::Share.                 *)

None == [kind |-> "None"]
Number(n) == [kind |-> "Number", num |-> n]
String(s) == [kind |-> "String", str |-> s]
Bool(b) == [kind |-> "Bool", b |-> b]
Share(ref) == [kind |-> "ClassInstance", ref |-> ref]
ClassValue(cls) == [kind |-> "Class", cls |-> cls]

IsInstance(v) == v.kind = "ClassInstance"

IsTrue_IgnoresBool(object) ==
    CASE object.kind = "None" -> FALSE
      [] object.kind = "Number" -> object.num # 0
      [] object.kind = "Bool" -> FALSE
      [] object.kind = "String" -> object.str # ""
      [] OTHER -> FALSE

IsTrue_InstancesTrue(object) ==
    CASE object.kind = "None" -> FALSE
      [] object.kind = "Number" -> object.num # 0
      [] object.kind = "Bool" -> object.b
      [] object.kind = "String" -> object.str # ""
      [] object.kind = "ClassInstance" -> TRUE
      [] OTHER -> FALSE

IsTrue(object) ==
    CASE object.kind = "None" -> FALSE
      [] object.kind = "Number" -> object.num # 0
      [] object.kind = "Bool" -> object.b
      [] object.kind = "String" -> object.str # ""
      [] OTHER -> FALSE

(* Closure: a map from names to holders.                                   *)
EmptyClosure == <<>>

Bind(cl, name, v) == (name :> v) @@ cl

(* The executable nodes of statement.cpp.  A unique_ptr<Statement> member  *)
(* that the code tests for nullptr is a sequence: empty for nullptr, else  *)
(* the one node it owns.                                                   *)
NumericConst(n) == [t |-> "NumericConst", v |-> Number(n)]
StringConst(s) == [t |-> "StringConst", v |-> String(s)]
BoolConst(b) == [t |-> "BoolConst", v |-> Bool(b)]
NoneConst == [t |-> "NoneConst", v |-> None]
VariableValue(ids) == [t |-> "VariableValue", dotted_ids |-> ids]
Assignment(var, rv) == [t |-> "Assignment", var |-> var, rv |-> rv]
FieldAssignment(object, field_name, rv) ==
    [t |-> "FieldAssignment", object |-> VariableValue(object),
     field_name |-> field_name, rv |-> rv]
PrintStmt(args) == [t |-> "Print", args |-> args]
MethodCall(object, method, args) ==
    [t |-> "MethodCall", object |-> <<object>>, method |-> method, args |-> args]
NewInstance(node, cls, args) ==
    [t |-> "NewInstance", node |-> node, cls |-> cls, args |-> args]
Add(lhs, rhs) == [t |-> "Add", lhs |-> lhs, rhs |-> rhs]
Sub(lhs, rhs) == [t |-> "Sub", lhs |-> lhs, rhs |-> rhs]
Mult(lhs, rhs) == [t |-> "Mult", lhs |-> lhs, rhs |-> rhs]
Div(lhs, rhs) == [t |-> "Div", lhs |-> lhs, rhs |-> rhs]
Stringify(argument) == [t |-> "Stringify", argument |-> <<argument>>]
Compound(stmts) == [t |-> "Compound", statements |-> stmts]
Return(stmt) == [t |-> "Return", statement |-> stmt]
IfElse(cond, if_body, else_body) ==
    [t |-> "IfElse", condition |-> cond, if_body |-> <<if_body>>, else_body |-> else_body]
MethodBody(body) == [t |-> "MethodBody", body |-> <<body>>]
Comparison(cmp, lhs, rhs) ==
    [t |-> "Comparison", cmp |-> cmp, lhs |-> <<lhs>>, rhs |-> <<rhs>>]
Or(lhs, rhs) == [t |-> "Or", lhs |-> <<lhs>>, rhs |-> <<rhs>>]
And(lhs, rhs) == [t |-> "And", lhs |-> <<lhs>>, rhs |-> <<rhs>>]
Not(argument) == [t |-> "Not", argument |-> <<argument>>]
ClassDefinition(cls) == [t |-> "ClassDefinition", cls |-> cls]

Method(name, params, body) ==
    [name |-> name, formal_params |-> params, body |-> MethodBody(body)]

ADD_METHOD == "__add__"
INIT_METHOD == "__init__"
STR_METHOD == "__str__"
EQ_METHOD == "__eq__"
LT_METHOD == "__lt__"

(* The classes of the modelled programs (the program of                    *)
(* TestVariablesArePointers, plus a factory and methods that return):      *)
(*                                                                         *)
(*   class Counter:                                                        *)
(*     def __init__():  self.value = 0                                     *)
(*     def add():       self.value = self.value + 1                        *)
(*   class Dummy:                                                          *)
(*     def do_add(counter):  counter.add()                                 *)
(*     def test(p):                                                        *)
(*       print 'in'                                                        *)
(*       if p:                                                             *)
(*         return 7                                                        *)
(*         print 'dead'                                                    *)
(*       self.after = 1                                                    *)
(*       print 'after'                                                     *)
(*     def outer(p):                                                       *)
(*       t = self.test(p)                                                  *)
(*       print 'outer'                                                     *)
(*       return t                                                          *)
(*   class Factory:                                                        *)
(*     def make():  return Counter()                                       *)
(*   class Base:                                                           *)
(*     def hello():      return 'Base.hello'                               *)
(*     def greet():      return 'Base.greet'                               *)
(*   class Mid(Base):                                                      *)
(*     def greet(name):  return 'Mid.greet'                                *)
(*     def mid():        return 'Mid.mid'                                  *)
(*   class Leaf(Mid):                                                      *)
(*     def leaf():       return 'Leaf.leaf'                                *)
(*     def mid():        return 'Leaf.mid'                                 *)
(*   class Scope:                                                          *)
(*     def set_local(v):   t = v                                           *)
(*                         return t                                        *)
(*     def peek():         return g                                        *)
(*     def first(a, b):    return a                                        *)
(*     def second(a, b):   return b                                        *)
(*     def who():          return self                                     *)
(*   class Noisy:                                                          *)
(*     def shout():        print 'in'                                      *)
(*                         return z                                        *)
(*   class Chatty:                                                         *)
(*     def __str__():      print 'side'                                    *)
(*                         return 'val'                                    *)
(*   class Adder:                                                          *)
(*     def __add__(rhs):   return rhs                                      *)
(*   class Wide:                                                           *)
(*     def __add__(a, b):  return a                                        *)
(*   class Probe:                                                          *)
(*     def __init__():     self.log = ''                                   *)
(*     def touch(tag, v):  self.log = self.log + tag                       *)
(*                         return v                                        *)
(*   class Ord:                                                            *)
(*     def __init__(k):    self.k = k                                      *)
(*     def __eq__(other):  return self.k == other.k                        *)
(*     def __lt__(other):  return self.k < other.k                         *)
(*   class Odd:                                                            *)
(*     def __eq__(other):  return False                                    *)
(*     def __lt__(other):  return True                                     *)
(*   class Loose:                                                          *)
(*     def __eq__(other):  return 1                                        *)
(*     def __lt__(other):  return None                                     *)
ClassTable ==
    [Counter |->
        [name |-> "Counter", parent |-> "",
         methods |-> <<
            Method(INIT_METHOD, <<>>,
                Compound(<<FieldAssignment(<<"self">>, "value", NumericConst(0))>>)),
            Method("add", <<>>,
                Compound(<<FieldAssignment(<<"self">>, "value",
                    Add(VariableValue(<<"self", "value">>), NumericConst(1)))>>))
         >>],
     Dummy |->
        [name |-> "Dummy", parent |-> "",
         methods |-> <<
            Method("do_add", <<"counter">>,
                Compound(<<MethodCall(VariableValue(<<"counter">>), "add", <<>>)>>)),
            Method("test", <<"p">>,
                Compound(<<
                    PrintStmt(<<StringConst("in")>>),
                    IfElse(VariableValue(<<"p">>),
                           Compound(<<Return(<<NumericConst(7)>>),
                                      PrintStmt(<<StringConst("dead")>>)>>),
                           <<>>),
                    FieldAssignment(<<"self">>, "after", NumericConst(1)),
                    PrintStmt(<<StringConst("after")>>)
                >>)),
            Method("outer", <<"p">>,
                Compound(<<
                    Assignment("t", MethodCall(VariableValue(<<"self">>), "test",
                                               <<VariableValue(<<"p">>)>>)),
                    PrintStmt(<<StringConst("outer")>>),
                    Return(<<VariableValue(<<"t">>)>>)
                >>))
         >>],
     Factory |->
        [name |-> "Factory", parent |-> "",
         methods |-> <<
            Method("make", <<>>,
                Compound(<<Return(<<NewInstance("Factory.make", "Counter", <<>>)>>)>>))
         >>],
     Base |->
        [name |-> "Base", parent |-> "",
         methods |-> <<
            Method("hello", <<>>, Compound(<<Return(<<StringConst("Base.hello")>>)>>)),
            Method("greet", <<>>, Compound(<<Return(<<StringConst("Base.greet")>>)>>))
         >>],
     Mid |->
        [name |-> "Mid", parent |-> "Base",
         methods |-> <<
            Method("greet", <<"name">>, Compound(<<Return(<<StringConst("Mid.greet")>>)>>)),
            Method("mid", <<>>, Compound(<<Return(<<StringConst("Mid.mid")>>)>>))
         >>],
     Leaf |->
        [name |-> "Leaf", parent |-> "Mid",
         methods |-> <<
            Method("leaf", <<>>, Compound(<<Return(<<StringConst("Leaf.leaf")>>)>>)),
            Method("mid", <<>>, Compound(<<Return(<<StringConst("Leaf.mid")>>)>>))
         >>],
     Scope |->
        [name |-> "Scope", parent |-> "",
         methods |-> <<
            Method("set_local", <<"v">>,
                Compound(<<Assignment("t", VariableValue(<<"v">>)),
                           Return(<<VariableValue(<<"t">>)>>)>>)),
            Method("peek", <<>>, Compound(<<Return(<<VariableValue(<<"g">>)>>)>>)),
            Method("first", <<"a", "b">>, Compound(<<Return(<<VariableValue(<<"a">>)>>)>>)),
            Method("second", <<"a", "b">>, Compound(<<Return(<<VariableValue(<<"b">>)>>)>>)),
            Method("who", <<>>, Compound(<<Return(<<VariableValue(<<"self">>)>>)>>))
         >>],
     Noisy |->
        [name |-> "Noisy", parent |-> "",
         methods |-> <<
            Method("shout", <<>>,
                Compound(<<PrintStmt(<<StringConst("in")>>),
                           Return(<<VariableValue(<<"z">>)>>)>>))
         >>],
     Chatty |->
        [name |-> "Chatty", parent |-> "",
         methods |-> <<
            Method(STR_METHOD, <<>>,
                Compound(<<PrintStmt(<<StringConst("side")>>),
                           Return(<<StringConst("val")>>)>>))
         >>],
     Adder |->
        [name |-> "Adder", parent |-> "",
         methods |-> <<
            Method(ADD_METHOD, <<"rhs">>, Compound(<<Return(<<VariableValue(<<"rhs">>)>>)>>))
         >>],
     Wide |->
        [name |-> "Wide", parent |-> "",
         methods |-> <<
            Method(ADD_METHOD, <<"a", "b">>, Compound(<<Return(<<VariableValue(<<"a">>)>>)>>))
         >>],
     Probe |->
        [name |-> "Probe", parent |-> "",
         methods |-> <<
            Method(INIT_METHOD, <<>>,
                Compound(<<FieldAssignment(<<"self">>, "log", StringConst(""))>>)),
            Method("touch", <<"tag", "v">>,
                Compound(<<
                    FieldAssignment(<<"self">>, "log",
                        Add(VariableValue(<<"self", "log">>), VariableValue(<<"tag">>))),
                    Return(<<VariableValue(<<"v">>)>>)
                >>))
         >>],
     Ord |->
        [name |-> "Ord", parent |-> "",
         methods |-> <<
            Method(INIT_METHOD, <<"k">>,
                Compound(<<FieldAssignment(<<"self">>, "k", VariableValue(<<"k">>))>>)),
            Method(EQ_METHOD, <<"other">>,
                Compound(<<Return(<<Comparison("Equal", VariableValue(<<"self", "k">>),
                                               VariableValue(<<"other", "k">>))>>)>>)),
            Method(LT_METHOD, <<"other">>,
                Compound(<<Return(<<Comparison("Less", VariableValue(<<"self", "k">>),
                                               VariableValue(<<"other", "k">>))>>)>>))
         >>],
     Odd |->
        [name |-> "Odd", parent |-> "",
         methods |-> <<
            Method(EQ_METHOD, <<"other">>, Compound(<<Return(<<BoolConst(FALSE)>>)>>)),
            Method(LT_METHOD, <<"other">>, Compound(<<Return(<<BoolConst(TRUE)>>)>>))
         >>],
     Loose |->
        [name |-> "Loose", parent |-> "",
         methods |-> <<
            Method(EQ_METHOD, <<"other">>, Compound(<<Return(<<NumericConst(1)>>)>>)),
            Method(LT_METHOD, <<"other">>, Compound(<<Return(<<NoneConst>>)>>))
         >>]]

(* Class::Class: vftable_[m.name] = &m for the methods of a list, in order. *)
RECURSIVE PutMethods(_, _)
PutMethods(vftable, methods) ==
    IF methods = <<>> THEN vftable
    ELSE PutMethods(Bind(vftable, Head(methods).name, Head(methods)), Tail(methods))

vftable_ParentWins(cls) ==
    LET Overlay(own, parent, classes) ==
            IF parent # "" THEN PutMethods(own, classes[parent].methods) ELSE own
        Fill(classes) ==
            Overlay(PutMethods(<<>>, classes[cls].methods), classes[cls].parent, classes)
    IN Fill(ClassTable)

vftable_(cls) ==
    LET Seeded(parent, classes) ==
            IF parent # "" THEN PutMethods(<<>>, classes[parent].methods) ELSE <<>>
        Fill(classes) ==
            PutMethods(Seeded(classes[cls].parent, classes), classes[cls].methods)
    IN Fill(ClassTable)

(* Class::GetMethod: a sequence holding the method, empty for nullptr.     *)
GetMethod(cls, name) ==
    LET Find(vftable) == IF name \in DOMAIN vftable THEN <<vftable[name]>> ELSE <<>>
    IN Find(vftable_(cls))

HasMethod_NameOnly(cls, method, argument_count) ==
    GetMethod(cls, method) # <<>>

(* ClassInstance::HasMethod, for an instance of class cls.                 *)
HasMethod(cls, method, argument_count) ==
    LET Matches(method_ptr) ==
            /\ method_ptr # <<>>
            /\ Len(method_ptr[1].formal_params) = argument_count
    IN Matches(GetMethod(cls, method))

-----------------------------------------------------------------------------
(* Execution.  Execute(node, closure, st) runs node->Execute(closure,      *)
(* context) and returns [c, st, v]: the closure afterwards, the rest of    *)
(* the program state and the holder returned.  st is                       *)
(*   inst    the instances, by owning NewInstance node: [cls, fields]      *)
(*   out     what has been written to context.GetOutputStream()            *)
(*   status  "ok", or the exception in flight: "return" (ReturnException,  *)
(*           its value in rex) or "error" (std::runtime_error, its         *)
(*           message in what)                                              *)
(*           or "undefined" (the code has dereferenced a null pointer)     *)
(*   news    a record of the NewInstance evaluations made so far           *)
(*   bodies  the number of MethodBody::Execute calls made                  *)

Result(c, st, v) == [c |-> c, st |-> st, v |-> v]

Ok(r) == r.st.status = "ok"

ThrowRuntimeError(c, st, msg) ==
    Result(c, [st EXCEPT !.status = "error", !.what = msg], None)

NullDereference(c, st) == Result(c, [st EXCEPT !.status = "undefined"], None)

(* The instance owned by a NewInstance node; it is constructed with the    *)
(* node (NewInstance::NewInstance) and enters inst when first used.        *)
InstanceOf(st, node, cls) ==
    IF node \in DOMAIN st.inst THEN st.inst[node] ELSE [cls |-> cls, fields |-> EmptyClosure]

WithInstance(st, node, cls) ==
    [st EXCEPT !.inst = Bind(@, node, InstanceOf(st, node, cls))]

RECURSIVE Execute(_, _, _)

(* Evaluates args left to right in closure c: [c, st, vs].                 *)
RECURSIVE ExecuteArgs(_, _, _, _)
ExecuteArgs(args, c, st, vs) ==
    IF args = <<>> THEN [c |-> c, st |-> st, vs |-> vs]
    ELSE LET Then(r) ==
                 IF Ok(r) THEN ExecuteArgs(Tail(args), r.c, r.st, Append(vs, r.v))
                 ELSE [c |-> r.c, st |-> r.st, vs |-> vs]
         IN Then(Execute(Head(args), c, st))

(* closure[formal_params[i]] = actual_args[i], in order.                   *)
RECURSIVE BindParams(_, _, _)
BindParams(cl, formal_params, actual_args) ==
    IF formal_params = <<>> THEN cl
    ELSE BindParams(Bind(cl, Head(formal_params), Head(actual_args)),
                    Tail(formal_params), Tail(actual_args))

(* ClassInstance::Call on the instance ref, from a caller whose closure is *)
(* c (untouched by the call).                                              *)
ClassInstanceCall_SharesScope(ref, method, actual_args, c, st) ==
    IF HasMethod(st.inst[ref].cls, method, Len(actual_args))
    THEN LET CallBody(method_ptr) ==
                 Execute(method_ptr.body,
                         BindParams(Bind(c, "self", Share(ref)),
                                    method_ptr.formal_params, actual_args),
                         st)
         IN CallBody(GetMethod(st.inst[ref].cls, method)[1])
    ELSE ThrowRuntimeError(c, st, "Call for a not defined method")

ClassInstanceCall(ref, method, actual_args, c, st) ==
    IF HasMethod(st.inst[ref].cls, method, Len(actual_args))
    THEN LET Returned(r) == Result(c, r.st, r.v)
             CallBody(method_ptr) ==
                 Returned(Execute(method_ptr.body,
                                  BindParams(Bind(EmptyClosure, "self", Share(ref)),
                                             method_ptr.formal_params, actual_args),
                                  st))
         IN CallBody(GetMethod(st.inst[ref].cls, method)[1])
    ELSE ThrowRuntimeError(c, st, "Call for a not defined method")

AssignmentExecute_Copies(n, c, st) ==
    LET StoreVar(r) ==
            IF ~Ok(r) THEN r
            ELSE IF IsInstance(r.v)
            THEN Result(Bind(r.c, n.var, Share(r.v.ref \o "'")),
                        [r.st EXCEPT !.inst = Bind(@, r.v.ref \o "'", r.st.inst[r.v.ref])],
                        Share(r.v.ref \o "'"))
            ELSE Result(Bind(r.c, n.var, r.v), r.st, r.v)
    IN StoreVar(Execute(n.rv, c, st))

AssignmentExecute(n, c, st) ==
    LET StoreVar(r) == IF Ok(r) THEN Result(Bind(r.c, n.var, r.v), r.st, r.v) ELSE r
    IN StoreVar(Execute(n.rv, c, st))

(* The loop of VariableValue::Execute over the remaining ids; cur is       *)
(* *current_closure_ptr.                                                   *)
RECURSIVE WalkIds(_, _, _, _)
WalkIds(ids, cur, result, st) ==
    IF ids = <<>> THEN [found |-> TRUE, v |-> result]
    ELSE IF Head(ids) \notin DOMAIN cur THEN [found |-> FALSE, v |-> None]
    ELSE WalkIds(Tail(ids),
                 IF IsInstance(cur[Head(ids)])
                 THEN st.inst[cur[Head(ids)].ref].fields ELSE cur,
                 cur[Head(ids)], st)

VariableValueExecute(n, c, st) ==
    IF Len(n.dotted_ids) > 0
    THEN LET Walked(w) ==
                 IF w.found THEN Result(c, st, w.v)
                 ELSE ThrowRuntimeError(c, st,
                                        "Invalid argument name in VariableValue::Execute()")
         IN Walked(WalkIds(n.dotted_ids, c, None, st))
    ELSE ThrowRuntimeError(c, st, "No arguments specified for VariableValue::Execute()")

(* Object::Print into the context's stream; an instance without __str__    *)
(* prints its address, written here as the name of its node.               *)
RECURSIVE PrintObject(_, _, _)
PrintObject(v, c, st) ==
    CASE v.kind = "Number" -> Result(c, [st EXCEPT !.out = @ \o ToString(v.num)], None)
      [] v.kind = "String" -> Result(c, [st EXCEPT !.out = @ \o v.str], None)
      [] v.kind = "Bool" ->
            Result(c, [st EXCEPT !.out = @ \o (IF v.b THEN "True" ELSE "False")], None)
      [] v.kind = "Class" -> Result(c, [st EXCEPT !.out = @ \o "Class " \o v.cls], None)
      [] v.kind = "ClassInstance" ->
            IF HasMethod(st.inst[v.ref].cls, STR_METHOD, 0)
            THEN LET PrintIt(r) ==
                         IF ~Ok(r) THEN r
                         ELSE IF r.v.kind = "None" THEN NullDereference(r.c, r.st)
                         ELSE PrintObject(r.v, r.c, r.st)
                 IN PrintIt(ClassInstanceCall(v.ref, STR_METHOD, <<>>, c, st))
            ELSE Result(c, [st EXCEPT !.out = @ \o "<" \o v.ref \o ">"], None)

RECURSIVE PrintArgs(_, _, _, _)
PrintArgs(args, i, c, st) ==
    IF i > Len(args) THEN Result(c, [st EXCEPT !.out = @ \o "\n"], None)
    ELSE LET Continue(p) == IF Ok(p) THEN PrintArgs(args, i + 1, p.c, p.st) ELSE p
             Write(result) ==
                 IF ~Ok(result) THEN result
                 ELSE IF result.v.kind # "None"
                 THEN Continue(PrintObject(result.v, result.c, result.st))
                 ELSE Continue(Result(result.c, [result.st EXCEPT !.out = @ \o "None"], None))
         IN Write(Execute(args[i], c, IF i > 1 THEN [st EXCEPT !.out = @ \o " "] ELSE st))

Reverse(s) == [i \in 1..Len(s) |-> s[Len(s) + 1 - i]]

PrintExecute_RightToLeft(n, c, st) == PrintArgs(Reverse(n.args), 1, c, st)

PrintExecute_Buffered(n, c, st) ==
    LET Flush(r) == IF Ok(r) THEN r ELSE Result(r.c, [r.st EXCEPT !.out = st.out], r.v)
    IN Flush(PrintArgs(n.args, 1, c, st))

PrintExecute(n, c, st) == PrintArgs(n.args, 1, c, st)

MethodCallExecute(n, c, st) ==
    IF n.object = <<>> THEN Result(c, st, None)
    ELSE LET CallWith(callable_object, a) ==
                 IF a.st.status # "ok" THEN Result(a.c, a.st, None)
                 ELSE ClassInstanceCall(callable_object.v.ref, n.method, a.vs, a.c, a.st)
             Call(callable_object) ==
                 IF ~Ok(callable_object) THEN callable_object
                 ELSE IF IsInstance(callable_object.v)
                 THEN CallWith(callable_object,
                               ExecuteArgs(n.args, callable_object.c, callable_object.st, <<>>))
                 ELSE Result(callable_object.c, callable_object.st, None)
         IN Call(Execute(n.object[1], c, st))

(* runtime::Number holds an int: the results of + - * / are ints, and a    *)
(* result outside INT_MIN..INT_MAX is a signed overflow, which is          *)
(* undefined.                                                              *)
INT_MIN == -INT_MAX - 1

AddFits(a, b) == IF b >= 0 THEN a <= INT_MAX - b ELSE a >= INT_MIN - b

SubFits(a, b) == IF b >= 0 THEN a >= INT_MIN + b ELSE a <= INT_MAX + b

MultFits(a, b) ==
    CASE a = 0 \/ b = 0 -> TRUE
      [] a = INT_MIN -> b = 1
      [] b = INT_MIN -> a = 1
      [] a > 0 /\ b > 0 -> a <= INT_MAX \div b
      [] a < 0 /\ b < 0 -> (-a) <= INT_MAX \div (-b)
      [] a > 0 /\ b < 0 ->
            \/ a <= INT_MAX \div (-b)
            \/ (a - 1 <= INT_MAX \div (-b) /\ (a - 1) * (-b) = INT_MAX - (-b) + 1)
      [] OTHER ->
            \/ b <= INT_MAX \div (-a)
            \/ (b - 1 <= INT_MAX \div (-a) /\ (b - 1) * (-a) = INT_MAX - (-a) + 1)

DivFits(a, b) == ~(a = INT_MIN /\ b = -1)

Abs(a) == IF a < 0 THEN -a ELSE a

(* The int quotient a / b of C++ (b # 0, the quotient an int): truncated   *)
(* toward zero.                                                            *)
Quotient(a, b) ==
    CASE b = INT_MIN -> IF a = INT_MIN THEN 1 ELSE 0
      [] a = INT_MIN /\ b = 1 -> INT_MIN
      [] a = INT_MIN ->
            LET magnitude == (INT_MAX \div Abs(b))
                                + (IF INT_MAX % Abs(b) = Abs(b) - 1 THEN 1 ELSE 0)
            IN IF b > 0 THEN -magnitude ELSE magnitude
      [] (a < 0) = (b < 0) -> Abs(a) \div Abs(b)
      [] OTHER -> -(Abs(a) \div Abs(b))

SignedOverflow(c, st) == Result(c, [st EXCEPT !.status = "undefined"], None)

AddExecute_Coerces(n, c, st) ==
    LET AddValues(l, r) ==
            IF ~Ok(r) THEN r
            ELSE IF l.v.kind = "Number" /\ r.v.kind = "Number"
                 THEN IF AddFits(l.v.num, r.v.num)
                      THEN Result(r.c, r.st, Number(l.v.num + r.v.num))
                      ELSE SignedOverflow(r.c, r.st)
            ELSE IF l.v.kind = "String" /\ r.v.kind = "String"
                 THEN Result(r.c, r.st, String(l.v.str \o r.v.str))
            ELSE IF IsInstance(l.v) /\ HasMethod(r.st.inst[l.v.ref].cls, ADD_METHOD, 1)
                 THEN ClassInstanceCall(l.v.ref, ADD_METHOD, <<r.v>>, r.c, r.st)
            ELSE Result(r.c, r.st, None)
        Rhs(l) == IF ~Ok(l) THEN l ELSE AddValues(l, Execute(n.rhs, l.c, l.st))
    IN Rhs(Execute(n.lhs, c, st))

AddExecute(n, c, st) ==
    LET AddValues(l, r) ==
            IF ~Ok(r) THEN r
            ELSE IF l.v.kind = "Number" /\ r.v.kind = "Number"
                 THEN IF AddFits(l.v.num, r.v.num)
                      THEN Result(r.c, r.st, Number(l.v.num + r.v.num))
                      ELSE SignedOverflow(r.c, r.st)
            ELSE IF l.v.kind = "String" /\ r.v.kind = "String"
                 THEN Result(r.c, r.st, String(l.v.str \o r.v.str))
            ELSE IF IsInstance(l.v) /\ HasMethod(r.st.inst[l.v.ref].cls, ADD_METHOD, 1)
                 THEN ClassInstanceCall(l.v.ref, ADD_METHOD, <<r.v>>, r.c, r.st)
            ELSE ThrowRuntimeError(r.c, r.st,
                                   "Incompatible argument(s) type(s) for Add::Execute()")
        Rhs(l) == IF ~Ok(l) THEN l ELSE AddValues(l, Execute(n.rhs, l.c, l.st))
    IN Rhs(Execute(n.lhs, c, st))

SubExecute(n, c, st) ==
    LET SubValues(l, r) ==
            IF ~Ok(r) THEN r
            ELSE IF l.v.kind = "Number" /\ r.v.kind = "Number"
                 THEN IF SubFits(l.v.num, r.v.num)
                      THEN Result(r.c, r.st, Number(l.v.num - r.v.num))
                      ELSE SignedOverflow(r.c, r.st)
            ELSE ThrowRuntimeError(r.c, r.st,
                                   "Incompatible argument(s) type(s) for Sub::Execute()")
        Rhs(l) == IF ~Ok(l) THEN l ELSE SubValues(l, Execute(n.rhs, l.c, l.st))
    IN Rhs(Execute(n.lhs, c, st))

MultExecute(n, c, st) ==
    LET MultValues(l, r) ==
            IF ~Ok(r) THEN r
            ELSE IF l.v.kind = "Number" /\ r.v.kind = "Number"
                 THEN IF MultFits(l.v.num, r.v.num)
                      THEN Result(r.c, r.st, Number(l.v.num * r.v.num))
                      ELSE SignedOverflow(r.c, r.st)
            ELSE ThrowRuntimeError(r.c, r.st,
                                   "Incompatible argument(s) type(s) for Mult::Execute()")
        Rhs(l) == IF ~Ok(l) THEN l ELSE MultValues(l, Execute(n.rhs, l.c, l.st))
    IN Rhs(Execute(n.lhs, c, st))

DivExecute_Floors(n, c, st) ==
    LET DivValues(l, r) ==
            IF ~Ok(r) THEN r
            ELSE IF l.v.kind = "Number" /\ r.v.kind = "Number"
                 THEN IF r.v.num = 0
                      THEN ThrowRuntimeError(r.c, r.st, "Division by zero in Div::Execute()")
                      ELSE IF DivFits(l.v.num, r.v.num)
                      THEN Result(r.c, r.st, Number(l.v.num \div r.v.num))
                      ELSE SignedOverflow(r.c, r.st)
            ELSE ThrowRuntimeError(r.c, r.st,
                                   "Incompatible argument(s) type(s) for Div::Execute()")
        Rhs(l) == IF ~Ok(l) THEN l ELSE DivValues(l, Execute(n.rhs, l.c, l.st))
    IN Rhs(Execute(n.lhs, c, st))

DivExecute(n, c, st) ==
    LET DivValues(l, r) ==
            IF ~Ok(r) THEN r
            ELSE IF l.v.kind = "Number" /\ r.v.kind = "Number"
                 THEN IF r.v.num = 0
                      THEN ThrowRuntimeError(r.c, r.st, "Division by zero in Div::Execute()")
                      ELSE IF DivFits(l.v.num, r.v.num)
                      THEN Result(r.c, r.st, Number(Quotient(l.v.num, r.v.num)))
                      ELSE SignedOverflow(r.c, r.st)
            ELSE ThrowRuntimeError(r.c, r.st,
                                   "Incompatible argument(s) type(s) for Div::Execute()")
        Rhs(l) == IF ~Ok(l) THEN l ELSE DivValues(l, Execute(n.rhs, l.c, l.st))
    IN Rhs(Execute(n.lhs, c, st))

RECURSIVE ExecuteStatements(_, _, _)
ExecuteStatements(statements, c, st) ==
    IF statements = <<>> THEN Result(c, st, None)
    ELSE LET Rest(r) == IF Ok(r) THEN ExecuteStatements(Tail(statements), r.c, r.st) ELSE r
         IN Rest(Execute(Head(statements), c, st))

CompoundExecute(n, c, st) == ExecuteStatements(n.statements, c, st)

ReturnExecute(n, c, st) ==
    IF n.statement = <<>>
    THEN Result(c, [st EXCEPT !.status = "return", !.rex = None], None)
    ELSE LET ThrowIt(result) ==
                 IF Ok(result)
                 THEN Result(result.c,
                             [result.st EXCEPT !.status = "return", !.rex = result.v], None)
                 ELSE result
         IN ThrowIt(Execute(n.statement[1], c, st))

(* The right-hand side is evaluated before Fields()[field_name_].          *)
FieldAssignmentExecute(n, c, st) ==
    LET StoreField(object_value, r) ==
            IF Ok(r)
            THEN Result(r.c,
                        [r.st EXCEPT !.inst[object_value.v.ref].fields =
                                         Bind(@, n.field_name, r.v)],
                        r.v)
            ELSE r
        Assign(object_value) ==
            IF ~Ok(object_value) THEN object_value
            ELSE IF object_value.v.kind = "None" THEN Result(c, st, None)
            ELSE IF ~IsInstance(object_value.v) THEN NullDereference(c, st)
            ELSE StoreField(object_value, Execute(n.rv, c, st))
    IN Assign(VariableValueExecute(n.object, c, st))

(* if_body is a one-element sequence, else_body is empty for no else.      *)
IfElseExecute(n, c, st) ==
    LET Branch(condition_result) ==
            IF ~Ok(condition_result) THEN condition_result
            ELSE IF IsTrue(condition_result.v)
                 THEN Execute(n.if_body[1], condition_result.c, condition_result.st)
            ELSE IF n.else_body # <<>>
                 THEN Execute(n.else_body[1], condition_result.c, condition_result.st)
            ELSE Result(condition_result.c, condition_result.st, None)
    IN Branch(Execute(n.condition, c, st))

NoteNewInstance(st, node, ref) ==
    [st EXCEPT !.news =
        [evaluations |-> @.evaluations + 1,
         refs |-> @.refs \cup {ref},
         all_empty |-> @.all_empty /\ DOMAIN InstanceOf(st, node, "").fields = {}]]

NewInstanceExecute(n, c, st) ==
    LET Shared(r) == IF Ok(r) THEN Result(r.c, r.st, Share(n.node)) ELSE r
        Construct(a) ==
            IF a.st.status # "ok" THEN Result(a.c, a.st, None)
            ELSE Shared(ClassInstanceCall(n.node, INIT_METHOD, a.vs, a.c, a.st))
        Evaluate(st0) ==
            IF HasMethod(n.cls, INIT_METHOD, Len(n.args))
            THEN Construct(ExecuteArgs(n.args, c, st0, <<>>))
            ELSE Result(c, st0, Share(n.node))
    IN Evaluate(WithInstance(NoteNewInstance(st, n.node, n.node), n.node, n.cls))

MethodBodyExecute_DropsValue(n, c, st) ==
    IF n.body = <<>> THEN Result(c, st, None)
    ELSE LET Catch(r) ==
                 IF r.st.status = "return"
                 THEN Result(r.c, [r.st EXCEPT !.status = "ok", !.rex = None], None)
                 ELSE IF Ok(r) THEN Result(r.c, r.st, None)
                 ELSE r
         IN Catch(Execute(n.body[1], c, [st EXCEPT !.bodies = @ + 1]))

MethodBodyExecute(n, c, st) ==
    IF n.body = <<>> THEN Result(c, st, None)
    ELSE LET Catch(r) ==
                 IF r.st.status = "return"
                 THEN Result(r.c, [r.st EXCEPT !.status = "ok", !.rex = None], r.st.rex)
                 ELSE IF Ok(r) THEN Result(r.c, r.st, None)
                 ELSE r
         IN Catch(Execute(n.body[1], c, [st EXCEPT !.bodies = @ + 1]))

(* The comparison functions of runtime.cpp.  Each returns the bool as a    *)
(* Bool holder in a Result, or the exception it leaves with.               *)

SameBuiltin(lhs, rhs, kind) == lhs.kind = kind /\ rhs.kind = kind

(* result.TryAs<Bool>()->GetValue() on what __eq__ or __lt__ returned: a   *)
(* null pointer is dereferenced when that is not a Bool.                   *)
BoolOf(result) ==
    IF ~Ok(result) THEN result
    ELSE IF result.v.kind = "Bool" THEN Result(result.c, result.st, Bool(result.v.b))
    ELSE NullDereference(result.c, result.st)

Equal_MixedIsFalse(lhs, rhs, c, st) ==
    IF lhs.kind = "None" /\ rhs.kind = "None" THEN Result(c, st, Bool(TRUE))
    ELSE IF SameBuiltin(lhs, rhs, "Number") THEN Result(c, st, Bool(lhs.num = rhs.num))
    ELSE IF SameBuiltin(lhs, rhs, "String") THEN Result(c, st, Bool(lhs.str = rhs.str))
    ELSE IF SameBuiltin(lhs, rhs, "Bool") THEN Result(c, st, Bool(lhs.b = rhs.b))
    ELSE IF IsInstance(lhs) /\ HasMethod(st.inst[lhs.ref].cls, EQ_METHOD, 1)
         THEN BoolOf(ClassInstanceCall(lhs.ref, EQ_METHOD, <<rhs>>, c, st))
    ELSE Result(c, st, Bool(FALSE))

Equal_NoneUnequal(lhs, rhs, c, st) ==
    IF lhs.kind = "None" /\ rhs.kind = "None" THEN Result(c, st, Bool(FALSE))
    ELSE IF SameBuiltin(lhs, rhs, "Number") THEN Result(c, st, Bool(lhs.num = rhs.num))
    ELSE IF SameBuiltin(lhs, rhs, "String") THEN Result(c, st, Bool(lhs.str = rhs.str))
    ELSE IF SameBuiltin(lhs, rhs, "Bool") THEN Result(c, st, Bool(lhs.b = rhs.b))
    ELSE IF IsInstance(lhs) /\ HasMethod(st.inst[lhs.ref].cls, EQ_METHOD, 1)
         THEN BoolOf(ClassInstanceCall(lhs.ref, EQ_METHOD, <<rhs>>, c, st))
    ELSE ThrowRuntimeError(c, st, "Cannot compare objects for equality")

Equal(lhs, rhs, c, st) ==
    IF lhs.kind = "None" /\ rhs.kind = "None" THEN Result(c, st, Bool(TRUE))
    ELSE IF SameBuiltin(lhs, rhs, "Number") THEN Result(c, st, Bool(lhs.num = rhs.num))
    ELSE IF SameBuiltin(lhs, rhs, "String") THEN Result(c, st, Bool(lhs.str = rhs.str))
    ELSE IF SameBuiltin(lhs, rhs, "Bool") THEN Result(c, st, Bool(lhs.b = rhs.b))
    ELSE IF IsInstance(lhs) /\ HasMethod(st.inst[lhs.ref].cls, EQ_METHOD, 1)
         THEN BoolOf(ClassInstanceCall(lhs.ref, EQ_METHOD, <<rhs>>, c, st))
    ELSE ThrowRuntimeError(c, st, "Cannot compare objects for equality")

(* std::string operator< on the strings of the modelled programs.          *)
StringOrder == <<"", "a", "b">>

StringLess(a, b) ==
    \E i, j \in 1..Len(StringOrder) : i < j /\ StringOrder[i] = a /\ StringOrder[j] = b

Less(lhs, rhs, c, st) ==
    IF SameBuiltin(lhs, rhs, "Number") THEN Result(c, st, Bool(lhs.num < rhs.num))
    ELSE IF SameBuiltin(lhs, rhs, "String")
         THEN Result(c, st, Bool(StringLess(lhs.str, rhs.str)))
    ELSE IF SameBuiltin(lhs, rhs, "Bool") THEN Result(c, st, Bool(~lhs.b /\ rhs.b))
    ELSE IF IsInstance(lhs) /\ HasMethod(st.inst[lhs.ref].cls, LT_METHOD, 1)
         THEN BoolOf(ClassInstanceCall(lhs.ref, LT_METHOD, <<rhs>>, c, st))
    ELSE ThrowRuntimeError(c, st, "Cannot compare objects for less")

(* !f(...) for a comparison that returned.                                 *)
Negated(result) ==
    IF Ok(result) THEN Result(result.c, result.st, Bool(~result.v.b)) ELSE result

NotEqual(lhs, rhs, c, st) == Negated(Equal(lhs, rhs, c, st))

LessOrEqual(lhs, rhs, c, st) ==
    LET OrEqual(less) ==
            IF ~Ok(less) THEN less
            ELSE IF less.v.b THEN less
            ELSE Equal(lhs, rhs, less.c, less.st)
    IN OrEqual(Less(lhs, rhs, c, st))

Greater(lhs, rhs, c, st) == Negated(LessOrEqual(lhs, rhs, c, st))

GreaterOrEqual_Strict(lhs, rhs, c, st) == Negated(LessOrEqual(lhs, rhs, c, st))

GreaterOrEqual(lhs, rhs, c, st) == Negated(Less(lhs, rhs, c, st))

(* cmp_(lhs, rhs, context) for the comparator named cmp.                   *)
Comparator(cmp, lhs, rhs, c, st) ==
    CASE cmp = "Equal" -> Equal(lhs, rhs, c, st)
      [] cmp = "NotEqual" -> NotEqual(lhs, rhs, c, st)
      [] cmp = "Less" -> Less(lhs, rhs, c, st)
      [] cmp = "Greater" -> Greater(lhs, rhs, c, st)
      [] cmp = "LessOrEqual" -> LessOrEqual(lhs, rhs, c, st)
      [] cmp = "GreaterOrEqual" -> GreaterOrEqual(lhs, rhs, c, st)

ComparisonExecute(n, c, st) ==
    IF n.lhs = <<>> \/ n.rhs = <<>>
    THEN ThrowRuntimeError(c, st, "Null operands specified for Comparison::Execute()")
    ELSE LET Compare(lhs_exec_result, rhs_exec_result) ==
                 IF ~Ok(rhs_exec_result) THEN rhs_exec_result
                 ELSE Comparator(n.cmp, lhs_exec_result.v, rhs_exec_result.v,
                                 rhs_exec_result.c, rhs_exec_result.st)
             Rhs(lhs_exec_result) ==
                 IF ~Ok(lhs_exec_result) THEN lhs_exec_result
                 ELSE Compare(lhs_exec_result,
                              Execute(n.rhs[1], lhs_exec_result.c, lhs_exec_result.st))
         IN Rhs(Execute(n.lhs[1], c, st))

OrExecute_Eager(n, c, st) ==
    IF n.lhs = <<>> \/ n.rhs = <<>>
    THEN ThrowRuntimeError(c, st, "Null operands specified for Or::Execute()")
    ELSE LET Both(lhs_exec_result, rhs_exec_result) ==
                 IF ~Ok(rhs_exec_result) THEN rhs_exec_result
                 ELSE Result(rhs_exec_result.c, rhs_exec_result.st,
                             Bool(IsTrue(lhs_exec_result.v) \/ IsTrue(rhs_exec_result.v)))
             First(lhs_exec_result) ==
                 IF ~Ok(lhs_exec_result) THEN lhs_exec_result
                 ELSE Both(lhs_exec_result,
                           Execute(n.rhs[1], lhs_exec_result.c, lhs_exec_result.st))
         IN First(Execute(n.lhs[1], c, st))

OrExecute(n, c, st) ==
    IF n.lhs = <<>> \/ n.rhs = <<>>
    THEN ThrowRuntimeError(c, st, "Null operands specified for Or::Execute()")
    ELSE LET Second(rhs_exec_result) ==
                 IF ~Ok(rhs_exec_result) THEN rhs_exec_result
                 ELSE Result(rhs_exec_result.c, rhs_exec_result.st,
                             Bool(IsTrue(rhs_exec_result.v)))
             First(lhs_exec_result) ==
                 IF ~Ok(lhs_exec_result) THEN lhs_exec_result
                 ELSE IF IsTrue(lhs_exec_result.v)
                 THEN Result(lhs_exec_result.c, lhs_exec_result.st, Bool(TRUE))
                 ELSE Second(Execute(n.rhs[1], lhs_exec_result.c, lhs_exec_result.st))
         IN First(Execute(n.lhs[1], c, st))

AndExecute(n, c, st) ==
    IF n.lhs = <<>> \/ n.rhs = <<>>
    THEN ThrowRuntimeError(c, st, "Null operands specified for And::Execute()")
    ELSE LET Both(lhs_exec_result, rhs_exec_result) ==
                 IF ~Ok(rhs_exec_result) THEN rhs_exec_result
                 ELSE Result(rhs_exec_result.c, rhs_exec_result.st,
                             Bool(IsTrue(lhs_exec_result.v) /\ IsTrue(rhs_exec_result.v)))
             First(lhs_exec_result) ==
                 IF ~Ok(lhs_exec_result) THEN lhs_exec_result
                 ELSE Both(lhs_exec_result,
                           Execute(n.rhs[1], lhs_exec_result.c, lhs_exec_result.st))
         IN First(Execute(n.lhs[1], c, st))

NotExecute(n, c, st) ==
    IF n.argument = <<>>
    THEN ThrowRuntimeError(c, st, "Null operand specified for Not::Execute()")
    ELSE LET Invert(arg_exec_result) ==
                 IF ~Ok(arg_exec_result) THEN arg_exec_result
                 ELSE Result(arg_exec_result.c, arg_exec_result.st,
                             Bool(~IsTrue(arg_exec_result.v)))
         IN Invert(Execute(n.argument[1], c, st))

(* ClassDefinition::Execute: cls_ is moved into the closure entry, which   *)
(* leaves the node's holder empty; with an empty holder TryAs gives a null *)
(* pointer and class_ptr->GetName() dereferences it.                       *)
ClassDefinitionExecute(n, c, st) ==
    IF n.cls \notin st.cls_ THEN NullDereference(c, st)
    ELSE Result(Bind(c, n.cls, ClassValue(n.cls)),
                [st EXCEPT !.cls_ = @ \ {n.cls}], None)

(* Stringify::Execute: the argument runs in the caller's context; its     *)
(* value is printed into dummy_context, whose stream starts empty.         *)
StringifyExecute_Leaks(n, c, st) ==
    IF n.argument = <<>> THEN Result(c, st, String("None"))
    ELSE LET Captured(exec_result, printed) ==
                 IF ~Ok(printed) THEN printed
                 ELSE Result(printed.c, printed.st, String(printed.st.out))
             PrintInto(exec_result) ==
                 IF ~Ok(exec_result) THEN exec_result
                 ELSE IF exec_result.v.kind = "None"
                 THEN Result(exec_result.c, exec_result.st, String("None"))
                 ELSE Captured(exec_result,
                               PrintObject(exec_result.v, exec_result.c, exec_result.st))
         IN PrintInto(Execute(n.argument[1], c, st))

StringifyExecute(n, c, st) ==
    IF n.argument = <<>> THEN Result(c, st, String("None"))
    ELSE LET Captured(exec_result, printed) ==
                 IF ~Ok(printed)
                 THEN Result(printed.c, [printed.st EXCEPT !.out = exec_result.st.out], None)
                 ELSE Result(printed.c, [printed.st EXCEPT !.out = exec_result.st.out],
                             String(printed.st.out))
             PrintInto(exec_result) ==
                 IF ~Ok(exec_result) THEN exec_result
                 ELSE IF exec_result.v.kind = "None"
                 THEN Result(exec_result.c, exec_result.st, String("None"))
                 ELSE Captured(exec_result,
                               PrintObject(exec_result.v, exec_result.c,
                                           [exec_result.st EXCEPT !.out = ""]))
         IN PrintInto(Execute(n.argument[1], c, st))

Execute(n, c, st) ==
    CASE n.t \in {"NumericConst", "StringConst", "BoolConst", "NoneConst"} ->
            Result(c, st, n.v)
      [] n.t = "VariableValue" -> VariableValueExecute(n, c, st)
      [] n.t = "Assignment" -> AssignmentExecute(n, c, st)
      [] n.t = "FieldAssignment" -> FieldAssignmentExecute(n, c, st)
      [] n.t = "Print" -> PrintExecute(n, c, st)
      [] n.t = "MethodCall" -> MethodCallExecute(n, c, st)
      [] n.t = "NewInstance" -> NewInstanceExecute(n, c, st)
      [] n.t = "Add" -> AddExecute(n, c, st)
      [] n.t = "Compound" -> CompoundExecute(n, c, st)
      [] n.t = "Return" -> ReturnExecute(n, c, st)
      [] n.t = "IfElse" -> IfElseExecute(n, c, st)
      [] n.t = "MethodBody" -> MethodBodyExecute(n, c, st)
      [] n.t = "Comparison" -> ComparisonExecute(n, c, st)
      [] n.t = "Or" -> OrExecute(n, c, st)
      [] n.t = "And" -> AndExecute(n, c, st)
      [] n.t = "Not" -> NotExecute(n, c, st)
      [] n.t = "ClassDefinition" -> ClassDefinitionExecute(n, c, st)
      [] n.t = "Sub" -> SubExecute(n, c, st)
      [] n.t = "Mult" -> MultExecute(n, c, st)
      [] n.t = "Div" -> DivExecute(n, c, st)
      [] n.t = "Stringify" -> StringifyExecute(n, c, st)

-----------------------------------------------------------------------------
(* The lexer as a state machine.                                           *)

LexState == [istr |-> istr, tokens |-> tokens_, gic |-> global_indent_counter_,
             err |-> err]

NoIndent == [called |-> FALSE, spaces |-> 0, next |-> EOF, before |-> 0, after |-> 0,
             indents |-> 0, dedents |-> 0]

(* The interpreter before the first statement of a program.                *)
RunIdle ==
    /\ closure = EmptyClosure
    /\ instances = <<>>
    /\ output = ""
    /\ status = "ok"
    /\ what = ""
    /\ last = ""
    /\ steps = 0
    /\ aliased = FALSE
    /\ news = [evaluations |-> 0, refs |-> {}, all_empty |-> TRUE]
    /\ last_bodies = 0
    /\ cls_ = DOMAIN ClassTable

LexInitWith(inp) ==
    /\ input = inp
    /\ istr = [pos |-> 0, bits |-> {}]
    /\ tokens_ = <<>>
    /\ global_indent_counter_ = 0
    /\ current_token_it_ = 1
    /\ pc = "Start"
    /\ err = "none"
    /\ returned = Tok("none")
    /\ ncalls = 0
    /\ iter_mark = -1
    /\ last_indent = NoIndent
    /\ RunIdle

Init ==
    \E n \in 1..MaxLines : \E ls \in [1..n -> LineSet] : \E newline \in BOOLEAN :
        LexInitWith(IF newline THEN JoinLines(ls) ELSE WithoutLast(JoinLines(ls)))

(* Stores the result of a pass and moves to the next one, or leaves the    *)
(* constructor with the exception.                                         *)
Store(L, next) ==
    /\ istr' = L.istr
    /\ tokens_' = L.tokens
    /\ global_indent_counter_' = L.gic
    /\ err' = L.err
    /\ pc' = IF L.err = "none" THEN next ELSE "Error"

(* ParseInputStream up to the main loop.                                   *)
ParseInputStreamBegin ==
    /\ pc = "Start"
    /\ Store([LexState EXCEPT !.gic = 0, !.tokens = <<>>, !.istr = TrimSpaces(istr)],
             "Loop")
    /\ UNCHANGED <<runvars, input, current_token_it_, returned, ncalls, iter_mark, last_indent>>

(* while (istr)                                                            *)
ParseInputStreamLoop ==
    /\ pc = "Loop"
    /\ pc' = IF StreamOk(istr) THEN "String" ELSE "Final"
    /\ iter_mark' = istr.pos
    /\ UNCHANGED <<runvars, input, istr, tokens_, global_indent_counter_, current_token_it_,
                   err, returned, ncalls, last_indent>>

LexParseString ==
    /\ pc = "String"
    /\ \E uninit \in BOOLEAN : Store(ParseString(LexState, uninit), "Keywords")
    /\ UNCHANGED <<runvars, input, current_token_it_, returned, ncalls, iter_mark, last_indent>>

LexParseKeywords ==
    /\ pc = "Keywords"
    /\ Store(ParseKeywords(LexState), "Chars")
    /\ UNCHANGED <<runvars, input, current_token_it_, returned, ncalls, iter_mark, last_indent>>

LexParseChars ==
    /\ pc = "Chars"
    /\ Store(ParseChars(LexState), "Numbers")
    /\ UNCHANGED <<runvars, input, current_token_it_, returned, ncalls, iter_mark, last_indent>>

LexParseNumbers ==
    /\ pc = "Numbers"
    /\ Store(ParseNumbers(LexState), "Trim")
    /\ UNCHANGED <<runvars, input, current_token_it_, returned, ncalls, iter_mark, last_indent>>

LexTrimSpaces ==
    /\ pc = "Trim"
    /\ Store([LexState EXCEPT !.istr = TrimSpaces(istr)], "NewLine")
    /\ UNCHANGED <<runvars, input, current_token_it_, returned, ncalls, iter_mark, last_indent>>

CountType(toks, t) == Cardinality({i \in 1..Len(toks) : toks[i].type = t})

RECURSIVE CountSpacesFrom(_)
CountSpacesFrom(i) ==
    IF i <= Len(input) /\ input[i] = " " THEN 1 + CountSpacesFrom(i + 1) ELSE 0

(* What the line that starts at input position i (1-based) looks like,     *)
(* read off the input itself.                                              *)
LineAt(i) ==
    LET s == CountSpacesFrom(i) IN
    [spaces |-> s, next |-> IF i + s <= Len(input) THEN input[i + s] ELSE EOF]

LexParseNewLine ==
    /\ pc = "NewLine"
    /\ LET L == ParseNewLine(LexState)
           sawNewline == Good(istr) /\ ~AtEnd(istr) /\ input[istr.pos + 1] = "\n"
           line == LineAt(istr.pos + 2)
       IN /\ Store(L, "Loop")
          /\ last_indent' =
               IF sawNewline
               THEN [called |-> TRUE, spaces |-> line.spaces, next |-> line.next,
                     before |-> global_indent_counter_, after |-> L.gic,
                     indents |-> CountType(L.tokens, "Indent") - CountType(tokens_, "Indent"),
                     dedents |-> CountType(L.tokens, "Dedent") - CountType(tokens_, "Dedent")]
               ELSE NoIndent
    /\ UNCHANGED <<runvars, input, current_token_it_, returned, ncalls, iter_mark>>

ParseInputStreamEnd ==
    /\ pc = "Final"
    /\ Store(Finalise(LexState), "Done")
    /\ current_token_it_' = 1
    /\ UNCHANGED <<runvars, input, returned, ncalls, iter_mark, last_indent>>

CurrentToken == tokens_[current_token_it_]

NextToken ==
    /\ pc = "Done"
    /\ ncalls < MaxCalls + Len(tokens_)
    /\ current_token_it_' = NextTokenIndex(current_token_it_, tokens_)
    /\ returned' = tokens_[current_token_it_']
    /\ ncalls' = ncalls + 1
    /\ UNCHANGED <<runvars, input, istr, tokens_, global_indent_counter_, pc, err, iter_mark,
                   last_indent>>

Next ==
    \/ ParseInputStreamBegin
    \/ ParseInputStreamLoop
    \/ LexParseString
    \/ LexParseKeywords
    \/ LexParseChars
    \/ LexParseNumbers
    \/ LexTrimSpaces
    \/ LexParseNewLine
    \/ ParseInputStreamEnd
    \/ NextToken

Spec == Init /\ [][Next]_vars

CharInit == \E inp \in CharInputs : LexInitWith(inp)

CharSpec == CharInit /\ [][Next]_vars

-----------------------------------------------------------------------------
(* The interpreter as a state machine: a program is run one top-level      *)
(* statement at a time (the statements of the top-level Compound), in the  *)
(* global closure.  Mython has no loops, so each top-level node is executed *)
(* once; the NewInstance node of the k-th statement is named by k, the     *)
(* NewInstance node inside Factory.make by its method.                     *)

NodeAt(k) == "s" \o ToString(k)

Var(name) == VariableValue(<<name>>)

AssignmentMenu(k) == <<
    [label |-> "x = Counter()",
     stmt |-> Assignment("x", NewInstance(NodeAt(k), "Counter", <<>>))],
    [label |-> "d = Dummy()",
     stmt |-> Assignment("d", NewInstance(NodeAt(k), "Dummy", <<>>))],
    [label |-> "f = Factory()",
     stmt |-> Assignment("f", NewInstance(NodeAt(k), "Factory", <<>>))],
    [label |-> "y = x", stmt |-> Assignment("y", Var("x"))],
    [label |-> "x = f.make()",
     stmt |-> Assignment("x", MethodCall(Var("f"), "make", <<>>))],
    [label |-> "y = f.make()",
     stmt |-> Assignment("y", MethodCall(Var("f"), "make", <<>>))],
    [label |-> "r = d.test(True)",
     stmt |-> Assignment("r", MethodCall(Var("d"), "test", <<BoolConst(TRUE)>>))],
    [label |-> "r = d.test(False)",
     stmt |-> Assignment("r", MethodCall(Var("d"), "test", <<BoolConst(FALSE)>>))],
    [label |-> "r = d.outer(True)",
     stmt |-> Assignment("r", MethodCall(Var("d"), "outer", <<BoolConst(TRUE)>>))]
>>

FieldAssignmentMenu == <<
    [label |-> "x.value = 5", stmt |-> FieldAssignment(<<"x">>, "value", NumericConst(5))],
    [label |-> "y.value = 7", stmt |-> FieldAssignment(<<"y">>, "value", NumericConst(7))]
>>

MethodCallMenu == <<
    [label |-> "x.add()", stmt |-> MethodCall(Var("x"), "add", <<>>)],
    [label |-> "y.add()", stmt |-> MethodCall(Var("y"), "add", <<>>)],
    [label |-> "d.do_add(x)", stmt |-> MethodCall(Var("d"), "do_add", <<Var("x")>>)],
    [label |-> "d.do_add(y)", stmt |-> MethodCall(Var("d"), "do_add", <<Var("y")>>)],
    [label |-> "x.nosuch()", stmt |-> MethodCall(Var("x"), "nosuch", <<>>)],
    [label |-> "x.add(1)", stmt |-> MethodCall(Var("x"), "add", <<NumericConst(1)>>)]
>>

PrintMenu == <<
    [label |-> "print x.value, y.value",
     stmt |-> PrintStmt(<<VariableValue(<<"x", "value">>), VariableValue(<<"y", "value">>)>>)]
>>

(* Runs one top-level statement to its end; an exception that leaves it    *)
(* ends the program.                                                       *)
RunStatement(s) ==
    /\ status = "ok"
    /\ steps < MaxSteps
    /\ LET Done(r) ==
               /\ closure' = r.c
               /\ instances' = r.st.inst
               /\ output' = r.st.out
               /\ status' = r.st.status
               /\ what' = r.st.what
               /\ news' = r.st.news
               /\ last_bodies' = r.st.bodies
               /\ cls_' = r.st.cls_
               /\ aliased' =
                    CASE s.label = "y = x" -> Ok(r) /\ IsInstance(r.v)
                      [] s.stmt.t = "Assignment" /\ s.stmt.var \in {"x", "y"} -> FALSE
                      [] OTHER -> aliased
       IN Done(Execute(s.stmt, closure,
                       [inst |-> instances, out |-> output, status |-> "ok", what |-> "",
                        rex |-> None, news |-> news, bodies |-> 0, cls_ |-> cls_]))
    /\ last' = s.label
    /\ steps' = steps + 1
    /\ UNCHANGED lexvars

RunAssignment ==
    \E i \in 1..Len(AssignmentMenu(steps)) : RunStatement(AssignmentMenu(steps)[i])

RunFieldAssignment ==
    \E i \in 1..Len(FieldAssignmentMenu) : RunStatement(FieldAssignmentMenu[i])

RunMethodCall ==
    \E i \in 1..Len(MethodCallMenu) : RunStatement(MethodCallMenu[i])

RunPrint ==
    \E i \in 1..Len(PrintMenu) : RunStatement(PrintMenu[i])

RunInit == LexInitWith(<<>>)

RunNext ==
    \/ RunAssignment
    \/ RunFieldAssignment
    \/ RunMethodCall
    \/ RunPrint

RunSpec == RunInit /\ [][RunNext]_vars

-----------------------------------------------------------------------------
(* Programs over the class hierarchy Base <- Mid <- Leaf.                   *)

Call0(object, method) == MethodCall(Var(object), method, <<>>)

NewObjectMenu(k) == <<
    [label |-> "b = Base()", stmt |-> Assignment("b", NewInstance(NodeAt(k), "Base", <<>>))],
    [label |-> "m = Mid()", stmt |-> Assignment("m", NewInstance(NodeAt(k), "Mid", <<>>))],
    [label |-> "l = Leaf()", stmt |-> Assignment("l", NewInstance(NodeAt(k), "Leaf", <<>>))]
>>

InheritedCallMenu == <<
    [label |-> "r = b.greet()", stmt |-> Assignment("r", Call0("b", "greet"))],
    [label |-> "r = m.hello()", stmt |-> Assignment("r", Call0("m", "hello"))],
    [label |-> "r = m.mid()", stmt |-> Assignment("r", Call0("m", "mid"))],
    [label |-> "r = m.greet('x')",
     stmt |-> Assignment("r", MethodCall(Var("m"), "greet", <<StringConst("x")>>))],
    [label |-> "r = m.greet()", stmt |-> Assignment("r", Call0("m", "greet"))],
    [label |-> "r = l.leaf()", stmt |-> Assignment("r", Call0("l", "leaf"))],
    [label |-> "r = l.mid()", stmt |-> Assignment("r", Call0("l", "mid"))],
    [label |-> "r = l.greet('x')",
     stmt |-> Assignment("r", MethodCall(Var("l"), "greet", <<StringConst("x")>>))],
    [label |-> "r = l.hello()", stmt |-> Assignment("r", Call0("l", "hello"))],
    [label |-> "r = l.nosuch()", stmt |-> Assignment("r", Call0("l", "nosuch"))]
>>

RunNewObject ==
    \E i \in 1..Len(NewObjectMenu(steps)) : RunStatement(NewObjectMenu(steps)[i])

RunInheritedCall ==
    \E i \in 1..Len(InheritedCallMenu) : RunStatement(InheritedCallMenu[i])

ClassNext ==
    \/ RunNewObject
    \/ RunInheritedCall

ClassSpec == RunInit /\ [][ClassNext]_vars

(* Programs that bind x and y to values of every kind and compare them:    *)
(*   class Ord: ...                                                        *)
(*   x = <value>                                                           *)
(*   y = <value>                                                           *)
(*   r = x <comparator> y  |  r = x == x  |  r = not x  |  if x: ...       *)
OperandMenu(name, k) == <<
    [label |-> name \o " = None", stmt |-> Assignment(name, NoneConst)],
    [label |-> name \o " = 0", stmt |-> Assignment(name, NumericConst(0))],
    [label |-> name \o " = 1", stmt |-> Assignment(name, NumericConst(1))],
    [label |-> name \o " = -1", stmt |-> Assignment(name, NumericConst(-1))],
    [label |-> name \o " = ''", stmt |-> Assignment(name, StringConst(""))],
    [label |-> name \o " = 'a'", stmt |-> Assignment(name, StringConst("a"))],
    [label |-> name \o " = False", stmt |-> Assignment(name, BoolConst(FALSE))],
    [label |-> name \o " = True", stmt |-> Assignment(name, BoolConst(TRUE))],
    [label |-> name \o " = Ord", stmt |-> Assignment(name, Var("Ord"))],
    [label |-> name \o " = Ord(1)",
     stmt |-> Assignment(name, NewInstance(NodeAt(k), "Ord", <<NumericConst(1)>>))],
    [label |-> name \o " = Ord(2)",
     stmt |-> Assignment(name, NewInstance(NodeAt(k), "Ord", <<NumericConst(2)>>))],
    [label |-> name \o " = Odd()", stmt |-> Assignment(name, NewInstance(NodeAt(k), "Odd", <<>>))],
    [label |-> name \o " = Loose()",
     stmt |-> Assignment(name, NewInstance(NodeAt(k), "Loose", <<>>))],
    [label |-> name \o " = Dummy()",
     stmt |-> Assignment(name, NewInstance(NodeAt(k), "Dummy", <<>>))]
>>

ComparisonMenu == <<
    [label |-> "r = x == y", stmt |-> Assignment("r", Comparison("Equal", Var("x"), Var("y")))],
    [label |-> "r = x != y",
     stmt |-> Assignment("r", Comparison("NotEqual", Var("x"), Var("y")))],
    [label |-> "r = x < y", stmt |-> Assignment("r", Comparison("Less", Var("x"), Var("y")))],
    [label |-> "r = x > y", stmt |-> Assignment("r", Comparison("Greater", Var("x"), Var("y")))],
    [label |-> "r = x <= y",
     stmt |-> Assignment("r", Comparison("LessOrEqual", Var("x"), Var("y")))],
    [label |-> "r = x >= y",
     stmt |-> Assignment("r", Comparison("GreaterOrEqual", Var("x"), Var("y")))],
    [label |-> "r = x == x", stmt |-> Assignment("r", Comparison("Equal", Var("x"), Var("x")))]
>>

TruthMenu == <<
    [label |-> "r = not x", stmt |-> Assignment("r", Not(Var("x")))],
    [label |-> "if x: r = True else: r = False",
     stmt |-> IfElse(Var("x"), Assignment("r", BoolConst(TRUE)),
                     <<Assignment("r", BoolConst(FALSE))>>)]
>>

RunClassDefinition ==
    /\ closure = EmptyClosure
    /\ RunStatement([label |-> "class Ord", stmt |-> ClassDefinition("Ord")])

RunBindX ==
    /\ "x" \notin DOMAIN closure
    /\ \E i \in 1..Len(OperandMenu("x", steps)) : RunStatement(OperandMenu("x", steps)[i])

RunBindY ==
    /\ "x" \in DOMAIN closure
    /\ "y" \notin DOMAIN closure
    /\ \E i \in 1..Len(OperandMenu("y", steps)) : RunStatement(OperandMenu("y", steps)[i])

RunComparison ==
    /\ "y" \in DOMAIN closure
    /\ \E i \in 1..Len(ComparisonMenu) : RunStatement(ComparisonMenu[i])

RunTruth ==
    /\ "y" \in DOMAIN closure
    /\ \E i \in 1..Len(TruthMenu) : RunStatement(TruthMenu[i])

CmpNext ==
    \/ RunClassDefinition
    \/ RunBindX
    \/ RunBindY
    \/ RunComparison
    \/ RunTruth

CmpSpec == RunInit /\ [][CmpNext]_vars

(* Programs whose operands record their evaluation in p.log:               *)
(*   p = Probe()                                                           *)
(*   r = p.touch('a', <v>) or p.touch('b', <v>)                            *)
(*   r = p.touch('a', <v>) and p.touch('b', <v>)                           *)
(*   print p.touch('a', <v>), p.touch('b', <v>), ...                       *)
Tags == <<"a", "b", "c">>

Operands == <<
    [text |-> "None", node |-> NoneConst, value |-> None, printed |-> "None"],
    [text |-> "0", node |-> NumericConst(0), value |-> Number(0), printed |-> "0"],
    [text |-> "'hi'", node |-> StringConst("hi"), value |-> String("hi"), printed |-> "hi"],
    [text |-> "True", node |-> BoolConst(TRUE), value |-> Bool(TRUE), printed |-> "True"]
>>

TouchText(k, i) == "p.touch('" \o Tags[k] \o "', " \o Operands[i].text \o ")"

Touch(k, i) == MethodCall(Var("p"), "touch", <<StringConst(Tags[k]), Operands[i].node>>)

OrStatement(i, j) ==
    [label |-> "r = " \o TouchText(1, i) \o " or " \o TouchText(2, j),
     stmt |-> Assignment("r", Or(Touch(1, i), Touch(2, j)))]

AndStatement(i, j) ==
    [label |-> "r = " \o TouchText(1, i) \o " and " \o TouchText(2, j),
     stmt |-> Assignment("r", And(Touch(1, i), Touch(2, j)))]

(* The argument lists of print: sequences of operand indices.              *)
ArgLists ==
    UNION {[1..n -> 1..Len(Operands)] : n \in 0..Len(Tags)}

RECURSIVE ArgsText(_, _)
ArgsText(ids, k) ==
    IF k > Len(ids) THEN ""
    ELSE (IF k > 1 THEN ", " ELSE " ") \o TouchText(k, ids[k]) \o ArgsText(ids, k + 1)

PrintStatement(ids) ==
    [label |-> "print" \o ArgsText(ids, 1),
     stmt |-> PrintStmt([k \in 1..Len(ids) |-> Touch(k, ids[k])])]

RunNewProbe ==
    /\ "p" \notin DOMAIN closure
    /\ RunStatement([label |-> "p = Probe()",
                     stmt |-> Assignment("p", NewInstance(NodeAt(steps), "Probe", <<>>))])

RunOr ==
    /\ "p" \in DOMAIN closure
    /\ steps < MaxStatements
    /\ \E i, j \in 1..Len(Operands) : RunStatement(OrStatement(i, j))

RunAnd ==
    /\ "p" \in DOMAIN closure
    /\ steps < MaxStatements
    /\ \E i, j \in 1..Len(Operands) : RunStatement(AndStatement(i, j))

RunPrintArgs ==
    /\ "p" \in DOMAIN closure
    /\ steps < MaxStatements
    /\ \E ids \in ArgLists : RunStatement(PrintStatement(ids))

LogicNext ==
    \/ RunNewProbe
    \/ RunOr
    \/ RunAnd
    \/ RunPrintArgs

LogicSpec == RunInit /\ [][LogicNext]_vars

(* Programs that bind x and y and combine them arithmetically:             *)
(*   class Ord: ...                                                        *)
(*   x = <value>                                                           *)
(*   y = <value>                                                           *)
(*   r = x + y  |  r = x - y  |  r = x * y  |  r = x / y  |  r = 36 / 4 / 3 *)
Const(name, text, node) == [label |-> name \o " = " \o text, stmt |-> Assignment(name, node)]

ArithOperandMenu(name, k) == <<
    Const(name, "None", NoneConst),
    Const(name, "-7", NumericConst(-7)),
    Const(name, "-2", NumericConst(-2)),
    Const(name, "-1", NumericConst(-1)),
    Const(name, "0", NumericConst(0)),
    Const(name, "2", NumericConst(2)),
    Const(name, "7", NumericConst(7)),
    Const(name, "2147483647", NumericConst(INT_MAX)),
    Const(name, "0 - 2147483647 - 1",
          Sub(Sub(NumericConst(0), NumericConst(INT_MAX)), NumericConst(1))),
    Const(name, "'a'", StringConst("a")),
    Const(name, "'b'", StringConst("b")),
    Const(name, "True", BoolConst(TRUE)),
    Const(name, "Ord", Var("Ord")),
    Const(name, "Adder()", NewInstance(NodeAt(k), "Adder", <<>>)),
    Const(name, "Wide()", NewInstance(NodeAt(k), "Wide", <<>>)),
    Const(name, "Dummy()", NewInstance(NodeAt(k), "Dummy", <<>>))
>>

ArithmeticMenu == <<
    Const("r", "x + y", Add(Var("x"), Var("y"))),
    Const("r", "x - y", Sub(Var("x"), Var("y"))),
    Const("r", "x * y", Mult(Var("x"), Var("y"))),
    Const("r", "x / y", Div(Var("x"), Var("y"))),
    Const("r", "36 / 4 / 3", Div(Div(NumericConst(36), NumericConst(4)), NumericConst(3)))
>>

RunBindOperandX ==
    /\ "x" \notin DOMAIN closure
    /\ \E i \in 1..Len(ArithOperandMenu("x", steps)) :
          RunStatement(ArithOperandMenu("x", steps)[i])

RunBindOperandY ==
    /\ "x" \in DOMAIN closure
    /\ "y" \notin DOMAIN closure
    /\ \E i \in 1..Len(ArithOperandMenu("y", steps)) :
          RunStatement(ArithOperandMenu("y", steps)[i])

RunArithmetic ==
    /\ "y" \in DOMAIN closure
    /\ \E i \in 1..Len(ArithmeticMenu) : RunStatement(ArithmeticMenu[i])

ArithNext ==
    \/ RunClassDefinition
    \/ RunBindOperandX
    \/ RunBindOperandY
    \/ RunArithmetic

ArithSpec == RunInit /\ [][ArithNext]_vars

(* Programs that read dotted names:                                        *)
(*   x = <value>                                                           *)
(*   y = <value>                                                           *)
(*   r = x.y  |  r = x.value  |  r = x.value.y  |  r = y.x  |  ...         *)
HolderMenu(name, k) == <<
    Const(name, "None", NoneConst),
    Const(name, "1", NumericConst(1)),
    Const(name, "'a'", StringConst("a")),
    Const(name, "True", BoolConst(TRUE)),
    Const(name, "Counter()", NewInstance(NodeAt(k), "Counter", <<>>)),
    Const(name, "Dummy()", NewInstance(NodeAt(k), "Dummy", <<>>))
>>

Read(text, ids) ==
    [label |-> "r = " \o text, stmt |-> Assignment("r", VariableValue(ids)), ids |-> ids]

ReadMenu == <<
    Read("x", <<"x">>),
    Read("z", <<"z">>),
    Read("x.y", <<"x", "y">>),
    Read("y.x", <<"y", "x">>),
    Read("x.x", <<"x", "x">>),
    Read("x.value", <<"x", "value">>),
    Read("x.value.y", <<"x", "value", "y">>),
    Read("x.nosuch", <<"x", "nosuch">>)
>>

RunBindHolderX ==
    /\ "x" \notin DOMAIN closure
    /\ \E i \in 1..Len(HolderMenu("x", steps)) : RunStatement(HolderMenu("x", steps)[i])

RunBindHolderY ==
    /\ "x" \in DOMAIN closure
    /\ "y" \notin DOMAIN closure
    /\ \E i \in 1..Len(HolderMenu("y", steps)) : RunStatement(HolderMenu("y", steps)[i])

RunRead ==
    /\ "y" \in DOMAIN closure
    /\ \E i \in 1..Len(ReadMenu) : RunStatement(ReadMenu[i])

DotNext ==
    \/ RunBindHolderX
    \/ RunBindHolderY
    \/ RunRead

DotSpec == RunInit /\ [][DotNext]_vars

(* Programs that call methods which assign and read local names:           *)
(*   s = Scope()                                                           *)
(*   g = <value>  |  t = <value>                                           *)
(*   r = s.set_local(7)  |  r = s.peek()  |  r = s.first(1, 'a')  | ...    *)
GlobalMenu == <<
    Const("g", "1", NumericConst(1)),
    Const("g", "'a'", StringConst("a")),
    Const("g", "None", NoneConst),
    Const("t", "1", NumericConst(1)),
    Const("t", "'a'", StringConst("a")),
    Const("t", "True", BoolConst(TRUE)),
    Const("v", "2", NumericConst(2)),
    Const("self", "'a'", StringConst("a"))
>>

ScopedCall(text, method, args) ==
    [label |-> "r = s." \o text, stmt |-> Assignment("r", MethodCall(Var("s"), method, args))]

ScopedCallMenu == <<
    ScopedCall("set_local(7)", "set_local", <<NumericConst(7)>>),
    ScopedCall("peek()", "peek", <<>>),
    ScopedCall("first(1, 'a')", "first", <<NumericConst(1), StringConst("a")>>),
    ScopedCall("second(1, 'a')", "second", <<NumericConst(1), StringConst("a")>>),
    ScopedCall("who()", "who", <<>>)
>>

RunNewScope ==
    /\ "s" \notin DOMAIN closure
    /\ RunStatement(Const("s", "Scope()", NewInstance(NodeAt(steps), "Scope", <<>>)))

RunBindGlobal ==
    /\ "s" \in DOMAIN closure
    /\ \E i \in 1..Len(GlobalMenu) :
          /\ GlobalMenu[i].stmt.var \notin DOMAIN closure
          /\ RunStatement(GlobalMenu[i])

RunScopedCall ==
    /\ "s" \in DOMAIN closure
    /\ \E i \in 1..Len(ScopedCallMenu) : RunStatement(ScopedCallMenu[i])

ScopeNext ==
    \/ RunNewScope
    \/ RunBindGlobal
    \/ RunScopedCall

ScopeSpec == RunInit /\ [][ScopeNext]_vars

(* Programs that print and then fail:                                      *)
(*   print 'a'  |  print 1, 2  |  print  |  n = Noisy()                    *)
(*   print z  |  print 1, z  |  print 1, 2, 1 / 0  |  r = z  |  n.shout()  *)
Line(text, stmt) == [label |-> text, stmt |-> stmt]

WritingMenu(k) == <<
    Line("print 'a'", PrintStmt(<<StringConst("a")>>)),
    Line("print 1, 2", PrintStmt(<<NumericConst(1), NumericConst(2)>>)),
    Line("print", PrintStmt(<<>>)),
    Line("n = Noisy()", Assignment("n", NewInstance(NodeAt(k), "Noisy", <<>>)))
>>

FailingMenu == <<
    Line("print z", PrintStmt(<<Var("z")>>)),
    Line("print 1, z", PrintStmt(<<NumericConst(1), Var("z")>>)),
    Line("print 1, 2, 1 / 0",
         PrintStmt(<<NumericConst(1), NumericConst(2),
                     Div(NumericConst(1), NumericConst(0))>>)),
    Line("r = z", Assignment("r", Var("z"))),
    Line("n.shout()", MethodCall(Var("n"), "shout", <<>>))
>>

RunWriting ==
    \E i \in 1..Len(WritingMenu(steps)) : RunStatement(WritingMenu(steps)[i])

RunFailing ==
    \E i \in 1..Len(FailingMenu) : RunStatement(FailingMenu[i])

FailNext ==
    \/ RunWriting
    \/ RunFailing

FailSpec == RunInit /\ [][FailNext]_vars

(* Programs that take the string form of a value:                          *)
(*   x = <value>                                                           *)
(*   print 'a'  |  print 1, 2  |  ...                                      *)
(*   r = str(x)  |  print x                                                *)
PrintableMenu(k) == <<
    Const("x", "None", NoneConst),
    Const("x", "57", NumericConst(57)),
    Const("x", "-8", NumericConst(-8)),
    Const("x", "'hi'", StringConst("hi")),
    Const("x", "''", StringConst("")),
    Const("x", "True", BoolConst(TRUE)),
    Const("x", "False", BoolConst(FALSE)),
    Const("x", "Chatty()", NewInstance(NodeAt(k), "Chatty", <<>>)),
    Const("x", "Dummy()", NewInstance(NodeAt(k), "Dummy", <<>>))
>>

StringifyMenu == <<
    Const("r", "str(x)", Stringify(Var("x"))),
    Line("print x", PrintStmt(<<Var("x")>>))
>>

RunBindPrintable ==
    /\ "x" \notin DOMAIN closure
    /\ \E i \in 1..Len(PrintableMenu(steps)) : RunStatement(PrintableMenu(steps)[i])

RunStringify ==
    /\ "x" \in DOMAIN closure
    /\ \E i \in 1..Len(StringifyMenu) : RunStatement(StringifyMenu[i])

StrNext ==
    \/ RunBindPrintable
    \/ RunWriting
    \/ RunStringify

StrSpec == RunInit /\ [][StrNext]_vars

(* Programs that define, use and rebind classes:                           *)
(*   class Ord: ...  |  class Dummy: ...     (a definition may run again)  *)
(*   x = Ord(1)  |  x = Dummy()                                            *)
(*   Ord = 1  |  Dummy = None                                              *)
(*   r = x == x  |  print x                                                *)
DefinitionMenu == <<
    Line("class Ord", ClassDefinition("Ord")),
    Line("class Dummy", ClassDefinition("Dummy"))
>>

InstanceMenu(k) == <<
    Const("x", "Ord(1)", NewInstance(NodeAt(k), "Ord", <<NumericConst(1)>>)),
    Const("x", "Dummy()", NewInstance(NodeAt(k), "Dummy", <<>>))
>>

RebindMenu == <<
    Const("Ord", "1", NumericConst(1)),
    Const("Dummy", "None", NoneConst)
>>

UseMenu == <<
    Const("r", "x == x", Comparison("Equal", Var("x"), Var("x"))),
    Line("print x", PrintStmt(<<Var("x")>>))
>>

RunDefinition ==
    \E i \in 1..Len(DefinitionMenu) : RunStatement(DefinitionMenu[i])

RunNewInstance ==
    \E i \in 1..Len(InstanceMenu(steps)) : RunStatement(InstanceMenu(steps)[i])

RunRebind ==
    \E i \in 1..Len(RebindMenu) : RunStatement(RebindMenu[i])

RunUse ==
    /\ "x" \in DOMAIN closure
    /\ \E i \in 1..Len(UseMenu) : RunStatement(UseMenu[i])

LifeNext ==
    \/ RunDefinition
    \/ RunNewInstance
    \/ RunRebind
    \/ RunUse

LifeSpec == RunInit /\ [][LifeNext]_vars

-----------------------------------------------------------------------------
(* Properties of the lexer.                                                *)

Accepted == pc = "Done"

(* The position of the last Newline token, or 0.                           *)
LastNewline(toks) ==
    LET S == {i \in 1..Len(toks) : IsNewline(toks[i])} IN
    IF S = {} THEN 0 ELSE CHOOSE i \in S : \A j \in S : j <= i

(* C3: for every accepted input the token sequence holds exactly one Eof,  *)
(* in last position; if any other token was emitted, the Eof is preceded   *)
(* by a Newline followed only by Dedent tokens; and there are as many      *)
(* Indent tokens as Dedent tokens.                                         *)
C3_EofNewlineBalance ==
    Accepted =>
        /\ Len(tokens_) >= 1
        /\ tokens_[Len(tokens_)].type = "Eof"
        /\ CountType(tokens_, "Eof") = 1
        /\ Len(tokens_) > 1 =>
              /\ LastNewline(tokens_) > 0
              /\ \A j \in (LastNewline(tokens_) + 1)..(Len(tokens_) - 1) :
                    tokens_[j].type = "Dedent"
        /\ CountType(tokens_, "Indent") = CountType(tokens_, "Dedent")

C3_Witness ==
    /\ Accepted
    /\ CountType(tokens_, "Indent") = 2
    /\ Len(tokens_) >= 4
    /\ tokens_[Len(tokens_) - 1].type = "Dedent"
    /\ tokens_[Len(tokens_) - 2].type = "Dedent"
    /\ tokens_[Len(tokens_) - 3].type = "Newline"

(* C4: two Newline tokens are never adjacent in tokens_, at any point of   *)
(* lexing and after finalisation.                                          *)
C4_NoAdjacentNewlines ==
    \A i \in 1..(Len(tokens_) - 1) :
        ~(IsNewline(tokens_[i]) /\ IsNewline(tokens_[i + 1]))

(* A blank line and a comment-only line were lexed after a first token.    *)
C4_Witness ==
    /\ Accepted
    /\ Len(input) >= 5
    /\ input[1] = "a" /\ input[2] = "\n" /\ input[3] = "\n"
    /\ input[4] = "#" /\ input[5] = "\n"
    /\ CountType(tokens_, "Newline") >= 1

NonBlankLine == last_indent.called /\ last_indent.next \notin {"\n", EOF}

BlankLine == last_indent.called /\ last_indent.next = "\n"

(* C5 as stated: with n = s / 2 (integer division) the lexer emits n - c   *)
(* Indent tokens if n > c, c - n Dedent tokens if n < c, none if n = c,    *)
(* and the depth becomes n, for every s including odd s.                   *)
C5_Original ==
    NonBlankLine =>
        LET n == last_indent.spaces \div SPACES_PER_INDENT
            c == last_indent.before
        IN /\ last_indent.after = n
           /\ last_indent.indents = (IF n > c THEN n - c ELSE 0)
           /\ last_indent.dedents = (IF n < c THEN c - n ELSE 0)

CeilDiv(a, b) == (a + b - 1) \div b

(* C5 amended: for a non-blank line with s leading spaces at depth c, if   *)
(* s > 2c the lexer emits ceil(s/2) - c Indent tokens and the depth        *)
(* becomes ceil(s/2); if s < 2c it emits c - floor(s/2) Dedent tokens and  *)
(* the depth becomes floor(s/2); if s = 2c it emits nothing.               *)
C5_IndentRule ==
    NonBlankLine =>
        LET s == last_indent.spaces
            c == last_indent.before
            up == CeilDiv(s, SPACES_PER_INDENT)
            down == s \div SPACES_PER_INDENT
        IN /\ s > SPACES_PER_INDENT * c =>
                /\ last_indent.indents = up - c
                /\ last_indent.dedents = 0
                /\ last_indent.after = up
           /\ s < SPACES_PER_INDENT * c =>
                /\ last_indent.dedents = c - down
                /\ last_indent.indents = 0
                /\ last_indent.after = down
           /\ s = SPACES_PER_INDENT * c =>
                /\ last_indent.indents = 0
                /\ last_indent.dedents = 0
                /\ last_indent.after = c

(* An odd number of spaces above the current depth.                        *)
C5_Witness ==
    /\ NonBlankLine
    /\ last_indent.spaces = 3
    /\ last_indent.before = 1
    /\ last_indent.after = 2
    /\ last_indent.indents = 1

(* C6: a blank line produces no Indent and no Dedent token and leaves the  *)
(* depth unchanged, whatever the depth and the number of spaces.           *)
C6_BlankLineKeepsDepth ==
    BlankLine =>
        /\ last_indent.indents = 0
        /\ last_indent.dedents = 0
        /\ last_indent.after = last_indent.before
        /\ global_indent_counter_ = last_indent.before

C6_Witness ==
    /\ BlankLine
    /\ pc = "Loop"
    /\ last_indent.before > 0
    /\ last_indent.spaces > 0
    /\ last_indent.spaces # SPACES_PER_INDENT * last_indent.before

(* C7: lexing terminates on every input: no iteration of the main loop     *)
(* that starts with a readable stream ends with the stream still readable  *)
(* and no byte consumed.                                                   *)
C7_EveryIterationConsumes ==
    (pc = "Loop" /\ iter_mark >= 0 /\ StreamOk(istr)) => istr.pos > iter_mark

Min(a, b) == IF a < b THEN a ELSE b

(* C8: each NextToken call moves the cursor one token forward and returns  *)
(* the new current token while the current token is not the last; once on  *)
(* the final Eof, every further call returns Eof and leaves the cursor     *)
(* there.                                                                  *)
C8_CursorSaturates ==
    Accepted =>
        /\ current_token_it_ = Min(1 + ncalls, Len(tokens_))
        /\ ncalls > 0 => returned = tokens_[current_token_it_]
        /\ ncalls >= Len(tokens_) - 1 => CurrentToken.type = "Eof"

C8_Witness ==
    /\ Accepted
    /\ Len(tokens_) >= 3
    /\ ncalls >= Len(tokens_) + 1
    /\ returned.type = "Eof"
    /\ current_token_it_ = Len(tokens_)

-----------------------------------------------------------------------------
(* Properties of the interpreter.                                          *)

(* The holder a read of name.value yields in the current state             *)
(* (VariableValue over the ids name, value in the global closure).         *)
ReadValue(name) ==
    VariableValueExecute(VariableValue(<<name, "value">>), closure,
                         [inst |-> instances, status |-> "ok", what |-> ""]).v

(* C1: aliasing law.  After `y = x` with x holding a class instance, and    *)
(* for as long as neither name is rebound, every mutation of the field     *)
(* value made through x (by x.value = 5, by the method x.add(), or by     *)
(* d.do_add(x), which receives x as an argument) is what the next read of  *)
(* y.value yields, and every such mutation through y is what the next     *)
(* read of x.value yields, whatever statements came before.                *)
C1_AliasingLaw ==
    [][(aliased /\ aliased' /\ status' = "ok") =>
          /\ ReadValue("x")' = ReadValue("y")'
          /\ (last' = "x.value = 5" => ReadValue("y")' = Number(5))
          /\ (last' = "y.value = 7" => ReadValue("x")' = Number(7))
          /\ (last' \in {"x.add()", "d.do_add(x)"} =>
                ReadValue("y")' = Number(ReadValue("y").num + 1))
          /\ (last' \in {"y.add()", "d.do_add(y)"} =>
                ReadValue("x")' = Number(ReadValue("x").num + 1))]_vars

(* x and y are aliases and a method that received x has just mutated the   *)
(* instance: the read through y sees the increment.                        *)
C1_Witness ==
    /\ aliased
    /\ status = "ok"
    /\ last = "d.do_add(x)"
    /\ ReadValue("y") = Number(1)

(* C2: every evaluation of a NewInstance node constructs a fresh instance:  *)
(* each evaluation found an empty field table before __init__ ran, and the *)
(* instances returned are pairwise distinct (as many instances as          *)
(* evaluations).                                                           *)
C2_FreshInstance ==
    /\ news.all_empty
    /\ Cardinality(news.refs) = news.evaluations

(* A step that is the statement label, made with d bound.                  *)
CallOnD(label) ==
    /\ steps' = steps + 1
    /\ last' = label
    /\ "d" \in DOMAIN closure

(* C9: a Return stops the method body where it stands and is caught by the *)
(* nearest MethodBody.  d.test(True) returns 7 from inside its if: nothing *)
(* after the Return runs (neither 'dead' nor 'after' is printed, the field *)
(* after is not written), the call yields 7 and the caller goes on.        *)
(* d.outer(True) calls test: the Return of test ends test only, outer      *)
(* prints 'outer' afterwards and returns the 7 itself.  d.test(False)      *)
(* runs to the end of its body without Return and yields None.             *)
C9_ReturnStopsBody ==
    [][/\ CallOnD("r = d.test(True)") =>
            /\ status' = "ok"
            /\ closure'["r"] = Number(7)
            /\ output' = output \o "in\n"
            /\ instances' = instances
            /\ last_bodies' = 1
       /\ CallOnD("r = d.outer(True)") =>
            /\ status' = "ok"
            /\ closure'["r"] = Number(7)
            /\ output' = output \o "in\nouter\n"
            /\ instances' = instances
            /\ last_bodies' = 2
       /\ CallOnD("r = d.test(False)") =>
            /\ status' = "ok"
            /\ closure'["r"] = None
            /\ output' = output \o "in\nafter\n"
            /\ instances'[closure["d"].ref].fields["after"] = Number(1)]_vars

(* outer has called test, whose Return was caught by test's own body, and  *)
(* has gone on to print and to return the value.                           *)
C9_Witness ==
    /\ last = "r = d.outer(True)"
    /\ status = "ok"
    /\ "r" \in DOMAIN closure
    /\ closure["r"] = Number(7)
    /\ last_bodies = 2

(* C10: a call on an instance of a method its class does not have          *)
(* (x.nosuch()) or with the wrong number of arguments (x.add(1), add has  *)
(* none) is the runtime error "Call for a not defined method"; no method   *)
(* body runs, no field of any instance changes, and nothing is written.    *)
C10_UndefinedMethodIsFatal ==
    [][(/\ steps' = steps + 1
        /\ last' \in {"x.nosuch()", "x.add(1)"}
        /\ "x" \in DOMAIN closure) =>
          /\ status' = "error"
          /\ what' = "Call for a not defined method"
          /\ last_bodies' = 0
          /\ instances' = instances
          /\ output' = output]_vars

(* add has been called with one argument on a counter that has fields.     *)
C10_Witness ==
    /\ last = "x.add(1)"
    /\ status = "error"
    /\ what = "Call for a not defined method"
    /\ "x" \in DOMAIN closure
    /\ "value" \in DOMAIN instances[closure["x"].ref].fields

(* A step that is the statement label, made with the variable bound.       *)
CallOn(name, label) ==
    /\ steps' = steps + 1
    /\ last' = label
    /\ name \in DOMAIN closure

Returns(text) ==
    /\ status' = "ok"
    /\ closure'["r"] = String(text)

NotDefined ==
    /\ status' = "error"
    /\ what' = "Call for a not defined method"

(* C11: in a child's vtable a name the child defines is the child's method *)
(* and a name only its parent defines is the parent's method; the          *)
(* collision is by name alone.  On a Mid (child of Base): mid and          *)
(* greet(name) are Mid's own, hello is Base's, and Base's greet() with no  *)
(* parameter is replaced by Mid's greet(name) and can no longer be         *)
(* called.  On a Leaf (child of Mid): leaf and mid are Leaf's own,         *)
(* greet(name) is Mid's.                                                   *)
C11_VtableOverride ==
    [][/\ CallOn("m", "r = m.mid()") => Returns("Mid.mid")
       /\ CallOn("m", "r = m.greet('x')") => Returns("Mid.greet")
       /\ CallOn("m", "r = m.hello()") => Returns("Base.hello")
       /\ CallOn("m", "r = m.greet()") => NotDefined
       /\ CallOn("l", "r = l.leaf()") => Returns("Leaf.leaf")
       /\ CallOn("l", "r = l.mid()") => Returns("Leaf.mid")
       /\ CallOn("l", "r = l.greet('x')") => Returns("Mid.greet")
       /\ CallOn("b", "r = b.greet()") => Returns("Base.greet")]_vars

(* greet() has been called on a Mid: Base's greet() is hidden by Mid's     *)
(* greet(name).                                                            *)
C11_Witness ==
    /\ last = "r = m.greet()"
    /\ "m" \in DOMAIN closure
    /\ status = "error"
    /\ what = "Call for a not defined method"

(* C12: method resolution covers the whole ancestor chain.  hello is       *)
(* defined by Base, the grandparent of Leaf, with no parameter, so         *)
(* l.hello() on a Leaf succeeds and yields Base's result; the not-defined  *)
(* error is raised only for a name no ancestor defines (l.nosuch()).       *)
C12_AncestorChain ==
    [][/\ CallOn("l", "r = l.hello()") => Returns("Base.hello")
       /\ CallOn("l", "r = l.greet('x')") => Returns("Mid.greet")
       /\ CallOn("l", "r = l.nosuch()") => NotDefined]_vars

(* The evaluation context of the current state.                            *)
Here ==
    [inst |-> instances, out |-> output, status |-> "ok", what |-> "",
     rex |-> None, news |-> news, bodies |-> 0, cls_ |-> cls_]

Gives(b) ==
    /\ status' = "ok"
    /\ closure'["r"] = Bool(b)

Builtin(x, y) == x.kind = y.kind /\ x.kind \in {"Number", "String", "Bool"}

(* The classes of the programs that define __eq__ with one parameter.      *)
DefinesEq(x) == IsInstance(x) /\ instances[x.ref].cls \in {"Ord", "Odd", "Loose"}

FromMethod(returned_value) ==
    /\ (Ok(returned_value) /\ returned_value.v.kind = "Bool") =>
            /\ status' = "ok"
            /\ closure'["r"] = returned_value.v
    /\ returned_value.st.status = "error" =>
            /\ status' = "error"
            /\ what' = returned_value.st.what

EqualAsRuled(x, y) ==
    IF x.kind = "None" /\ y.kind = "None" THEN Gives(TRUE)
    ELSE IF Builtin(x, y) THEN Gives(x = y)
    ELSE IF DefinesEq(x)
         THEN /\ FromMethod(ClassInstanceCall(x.ref, EQ_METHOD, <<y>>, closure, Here))
              /\ instances[x.ref].cls = "Odd" => Gives(FALSE)
              /\ (instances[x.ref].cls = "Ord" /\ IsInstance(y) /\ instances[y.ref].cls = "Ord")
                    => Gives(instances[x.ref].fields["k"] = instances[y.ref].fields["k"])
    ELSE /\ status' = "error"
         /\ what' = "Cannot compare objects for equality"

(* C13: Equal applies its rules in order: two empty holders are equal; two *)
(* Numbers, two Strings or two Bools are equal exactly when their values   *)
(* are; a left-hand instance whose class defines __eq__ with one parameter *)
(* gives the Bool that lhs.__eq__(rhs) returns; every other pair is a      *)
(* runtime error "Cannot compare objects for equality".                    *)
C13_EqualRules ==
    [][CallOn("y", "r = x == y") => EqualAsRuled(closure["x"], closure["y"])]_vars

C13_Witness ==
    /\ last = "r = x == y"
    /\ status = "ok"
    /\ IsInstance(closure["x"]) /\ instances[closure["x"].ref].cls = "Ord"
    /\ IsInstance(closure["y"]) /\ closure["y"].ref # closure["x"].ref
    /\ closure["r"] = Bool(TRUE)

CannotCompare ==
    /\ status' = "error"
    /\ what' = "Cannot compare objects for equality"

(* C14 as stated: Equal(x, x) is true for every value x.                   *)
C14_Original ==
    [][CallOn("y", "r = x == x") => Gives(TRUE)]_vars

SelfEqual(x) ==
    CASE x.kind \in {"None", "Number", "String", "Bool"} -> Gives(TRUE)
      [] x.kind = "Class" -> CannotCompare
      [] DefinesEq(x) ->
            /\ FromMethod(ClassInstanceCall(x.ref, EQ_METHOD, <<x>>, closure, Here))
            /\ instances[x.ref].cls = "Ord" => Gives(TRUE)
            /\ instances[x.ref].cls = "Odd" => Gives(FALSE)
      [] OTHER -> CannotCompare

(* C14: Equal(x, x) is true when x is None, a Number, a String or a Bool;  *)
(* for an instance whose class defines __eq__ it is the Bool that          *)
(* x.__eq__(x) returns; for a Class value and for an instance without      *)
(* __eq__ it is the runtime error of Equal's last rule.                    *)
C14_ReflexiveOnValues ==
    [][CallOn("y", "r = x == x") => SelfEqual(closure["x"])]_vars

C14_Witness ==
    /\ last = "r = x == x"
    /\ status = "ok"
    /\ closure["x"] = String("a")
    /\ closure["r"] = Bool(TRUE)

EqualToFalse ==
    /\ CallOn("y", "r = x == y")
    /\ closure["y"] = Bool(FALSE)

(* C15 as stated: wherever Equal(x, False) is defined, IsTrue(x) has the   *)
(* boolean value Equal(x, False) has.                                      *)
C15_Original ==
    [][(EqualToFalse /\ status' = "ok") => closure'["r"] = Bool(IsTrue(closure["x"]))]_vars

(* C15: for every Bool x, Equal(x, False) is defined and IsTrue(x) is its  *)
(* negation; an instance x is never truthy, whatever its __eq__ returns.   *)
C15_BoolNegation ==
    [][EqualToFalse =>
          /\ closure["x"].kind = "Bool" => Gives(~IsTrue(closure["x"]))
          /\ IsInstance(closure["x"]) => ~IsTrue(closure["x"])]_vars

C15_Witness ==
    /\ last = "r = x == y"
    /\ status = "ok"
    /\ closure["x"] = Bool(TRUE)
    /\ closure["y"] = Bool(FALSE)
    /\ closure["r"] = Bool(FALSE)

BothDefined(less, equal) == Ok(less) /\ Ok(equal)

ComposedOf(less, equal) ==
    /\ (last' = "r = x != y" /\ Ok(equal)) => Gives(~equal.v.b)
    /\ (last' = "r = x <= y" /\ BothDefined(less, equal)) => Gives(less.v.b \/ equal.v.b)
    /\ (last' = "r = x > y" /\ BothDefined(less, equal)) => Gives(~(less.v.b \/ equal.v.b))
    /\ (last' = "r = x >= y" /\ BothDefined(less, equal)) => Gives(~less.v.b)

(* C16: the composite comparisons are built from Less and Equal: NotEqual  *)
(* is not Equal; LessOrEqual is Less or Equal; Greater is not (Less or     *)
(* Equal); GreaterOrEqual is not Less, on the pairs for which both Less    *)
(* and Equal are defined.                                                  *)
C16_Composites ==
    [][(steps' = steps + 1 /\ "y" \in DOMAIN closure) =>
          ComposedOf(Less(closure["x"], closure["y"], closure, Here),
                     Equal(closure["x"], closure["y"], closure, Here))]_vars

C16_Witness ==
    /\ last = "r = x >= y"
    /\ status = "ok"
    /\ closure["x"] = closure["y"]
    /\ closure["x"] = Number(1)
    /\ closure["r"] = Bool(TRUE)

Truthy(v) ==
    \/ v.kind = "Number" /\ v.num # 0
    \/ v.kind = "Bool" /\ v.b
    \/ v.kind = "String" /\ v.str # ""

(* C17: IsTrue is true exactly for a Number other than 0, the Bool true    *)
(* and a non-empty String; it is false for None, 0, false, the empty       *)
(* String, a Class value and a class instance.                             *)
C17_IsTrue ==
    [][/\ CallOn("y", "if x: r = True else: r = False") => Gives(Truthy(closure["x"]))
       /\ CallOn("y", "r = not x") => Gives(~Truthy(closure["x"]))]_vars

C17_Witness ==
    /\ last = "if x: r = True else: r = False"
    /\ status = "ok"
    /\ IsInstance(closure["x"])
    /\ closure["r"] = Bool(FALSE)

(* The evaluations recorded by the step, in order.                         *)
Logged(tags) ==
    instances'[closure["p"].ref].fields["log"] =
        String(instances[closure["p"].ref].fields["log"].str \o tags)

(* C18: Or evaluates its left operand first; when that is truthy the       *)
(* right operand is not evaluated and the result is Bool true; otherwise   *)
(* the right operand is evaluated exactly once and the result is the Bool  *)
(* of its truthiness.                                                      *)
C18_OrShortCircuit ==
    [][\A i, j \in 1..Len(Operands) :
          CallOn("p", OrStatement(i, j).label) =>
              IF Truthy(Operands[i].value)
              THEN Gives(TRUE) /\ Logged("a")
              ELSE Gives(Truthy(Operands[j].value)) /\ Logged("ab")]_vars

C18_Witness ==
    /\ last = OrStatement(4, 2).label
    /\ status = "ok"
    /\ closure["r"] = Bool(TRUE)
    /\ instances[closure["p"].ref].fields["log"] = String("a")

(* C19: And evaluates its left operand first; when that is falsy the       *)
(* right operand is not evaluated and the result is Bool false; otherwise  *)
(* the right operand is evaluated once and the result is true only when    *)
(* both are truthy.                                                        *)
C19_AndShortCircuit ==
    [][\A i, j \in 1..Len(Operands) :
          CallOn("p", AndStatement(i, j).label) =>
              IF ~Truthy(Operands[i].value)
              THEN Gives(FALSE) /\ Logged("a")
              ELSE Gives(Truthy(Operands[j].value)) /\ Logged("ab")]_vars

RECURSIVE Joined(_, _)
Joined(ids, k) ==
    IF k > Len(ids) THEN ""
    ELSE (IF k > 1 THEN " " ELSE "") \o Operands[ids[k]].printed \o Joined(ids, k + 1)

RECURSIVE TagsUpTo(_)
TagsUpTo(n) == IF n = 0 THEN "" ELSE TagsUpTo(n - 1) \o Tags[n]

(* C20: print evaluates its arguments from left to right, each exactly     *)
(* once, writes their printed forms (None for an empty holder) with one    *)
(* space between neighbours and one newline at the end, writes only the    *)
(* newline when it has no arguments, and returns None.                     *)
C20_Print ==
    [][\A ids \in ArgLists :
          CallOn("p", PrintStatement(ids).label) =>
              /\ status' = "ok"
              /\ output' = output \o Joined(ids, 1) \o "\n"
              /\ Logged(TagsUpTo(Len(ids)))
              /\ Execute(PrintStatement(ids).stmt, closure, Here).v = None]_vars

C20_Witness ==
    /\ last = PrintStatement(<<2, 1, 3>>).label
    /\ status = "ok"
    /\ output = "0 None hi\n"
    /\ instances[closure["p"].ref].fields["log"] = String("abc")

GivesValue(v) ==
    /\ status' = "ok"
    /\ closure'["r"] = v

Fatal(msg) ==
    /\ status' = "error"
    /\ what' = msg
    /\ closure' = closure

BothOf(x, y, kind) == x.kind = kind /\ y.kind = kind

SumAsRuled(x, y) ==
    IF BothOf(x, y, "Number")
    THEN AddFits(x.num, y.num) => GivesValue(Number(x.num + y.num))
    ELSE IF BothOf(x, y, "String") THEN GivesValue(String(x.str \o y.str))
    ELSE IF IsInstance(x) /\ instances[x.ref].cls = "Adder" THEN GivesValue(y)
    ELSE Fatal("Incompatible argument(s) type(s) for Add::Execute()")

(* C21: Add returns the integer sum of two Numbers (a sum that fits the    *)
(* Number type), the concatenation of two Strings, and what                *)
(* lhs.__add__(rhs) returns when lhs is an instance whose class has        *)
(* __add__ with one parameter; every other combination of operands is a    *)
(* runtime error.                                                          *)
C21_Add ==
    [][CallOn("y", "r = x + y") => SumAsRuled(closure["x"], closure["y"])]_vars

C21_Witness ==
    /\ last = "r = x + y"
    /\ status = "ok"
    /\ IsInstance(closure["x"]) /\ instances[closure["x"].ref].cls = "Adder"
    /\ closure["y"] = String("b")
    /\ closure["r"] = String("b")

Small(a) == a \in -36..36

(* q is a / b rounded toward zero.                                         *)
TruncatedQuotient(a, b, q) ==
    /\ Abs(q) * Abs(b) <= Abs(a)
    /\ Abs(a) < (Abs(q) + 1) * Abs(b)
    /\ q > 0 => (a < 0) = (b < 0)
    /\ q < 0 => (a < 0) # (b < 0)

QuotientAsRuled(x, y) ==
    IF BothOf(x, y, "Number")
    THEN IF y.num = 0 THEN Fatal("Division by zero in Div::Execute()")
         ELSE DivFits(x.num, y.num) =>
                /\ status' = "ok"
                /\ closure'["r"].kind = "Number"
                /\ (Small(x.num) /\ Small(y.num)) =>
                        /\ Small(closure'["r"].num)
                        /\ TruncatedQuotient(x.num, y.num, closure'["r"].num)
    ELSE Fatal("Incompatible argument(s) type(s) for Div::Execute()")

(* C22: Div of two Numbers is a runtime error that produces no value when  *)
(* the divisor is 0, and otherwise the quotient truncated toward zero for  *)
(* every combination of signs (a quotient that fits the Number type); a    *)
(* non-Number operand is a runtime error; 36 / 4 / 3 divides left to       *)
(* right and gives 3.                                                      *)
C22_Div ==
    [][/\ CallOn("y", "r = x / y") => QuotientAsRuled(closure["x"], closure["y"])
       /\ CallOn("y", "r = 36 / 4 / 3") => GivesValue(Number(3))]_vars

C22_Witness ==
    /\ last = "r = x / y"
    /\ status = "ok"
    /\ closure["x"] = Number(-7)
    /\ closure["y"] = Number(2)
    /\ closure["r"] = Number(-3)

(* The walk as described: each id after the first is looked up in the      *)
(* fields of the instance obtained for the id before it.                   *)
RECURSIVE FieldWalk(_, _)
FieldWalk(ids, previous) ==
    IF ids = <<>> THEN [found |-> TRUE, v |-> previous]
    ELSE IF ~IsInstance(previous) THEN [found |-> FALSE, v |-> None]
    ELSE IF Head(ids) \notin DOMAIN instances[previous.ref].fields
         THEN [found |-> FALSE, v |-> None]
    ELSE FieldWalk(Tail(ids), instances[previous.ref].fields[Head(ids)])

Yields(walk) ==
    IF walk.found THEN GivesValue(walk.v)
    ELSE Fatal("Invalid argument name in VariableValue::Execute()")

(* C23: a dotted name i0.i1...ik looks i0 up in the current scope and each *)
(* later id in the fields of the instance obtained for the id before it;   *)
(* an id missing from its table, or a non-final id whose value is not a    *)
(* class instance, is a runtime error and yields no value.                 *)
C23_DottedIds ==
    [][\A i \in 1..Len(ReadMenu) :
          CallOn("y", ReadMenu[i].label) =>
              IF Head(ReadMenu[i].ids) \in DOMAIN closure
              THEN Yields(FieldWalk(Tail(ReadMenu[i].ids), closure[Head(ReadMenu[i].ids)]))
              ELSE Fatal("Invalid argument name in VariableValue::Execute()")]_vars

(* The caller's scope after the step is its scope before, but for r.       *)
CallerKeeps ==
    /\ DOMAIN closure' \subseteq DOMAIN closure \cup {"r"}
    /\ \A name \in DOMAIN closure \ {"r"} :
          name \in DOMAIN closure' /\ closure'[name] = closure[name]

(* C26: a method runs in a fresh scope of self and its parameters, bound   *)
(* to the arguments in order: what the body assigns is not in the caller's *)
(* scope afterwards, the caller's bindings are unchanged by the call, and  *)
(* the caller's variables cannot be read inside the method.                *)
C26_FreshScope ==
    [][/\ \A i \in 1..Len(ScopedCallMenu) :
            CallOn("s", ScopedCallMenu[i].label) => CallerKeeps
       /\ CallOn("s", "r = s.set_local(7)") => GivesValue(Number(7))
       /\ CallOn("s", "r = s.peek()")
            => Fatal("Invalid argument name in VariableValue::Execute()")
       /\ CallOn("s", "r = s.first(1, 'a')") => GivesValue(Number(1))
       /\ CallOn("s", "r = s.second(1, 'a')") => GivesValue(String("a"))
       /\ CallOn("s", "r = s.who()") => GivesValue(closure["s"])]_vars

C26_Witness ==
    /\ last = "r = s.set_local(7)"
    /\ status = "ok"
    /\ "t" \in DOMAIN closure /\ closure["t"] = String("a")
    /\ "v" \in DOMAIN closure /\ closure["v"] = Number(2)
    /\ closure["r"] = Number(7)

Step(label) ==
    /\ steps' = steps + 1
    /\ last' = label

Completes(written) ==
    /\ status' = "ok"
    /\ output' = output \o written

FailsAfter(written) ==
    /\ status' = "error"
    /\ output' = output \o written

Shouted == IF "n" \in DOMAIN closure THEN "in\n" ELSE ""

CompletedStatements ==
    /\ Step("print 'a'") => Completes("a\n")
    /\ Step("print 1, 2") => Completes("1 2\n")
    /\ Step("print") => Completes("\n")
    /\ Step("n = Noisy()") => Completes("")
    /\ Step("print z") => FailsAfter("")
    /\ Step("r = z") => FailsAfter("")
    /\ Step("n.shout()") => FailsAfter(Shouted)

TextOf(x) ==
    CASE x = None -> "None"
      [] x = Number(57) -> "57"
      [] x = Number(-8) -> "-8"
      [] x = String("hi") -> "hi"
      [] x = String("") -> ""
      [] x = Bool(TRUE) -> "True"
      [] x = Bool(FALSE) -> "False"
      [] IsInstance(x) /\ instances[x.ref].cls = "Chatty" -> "side\nval"
      [] OTHER -> "?"

(* What print x appends to the stream it writes to.                        *)
PrintedLine(printed) == printed.st.out

(* C29: str(x) is the String None for an empty holder and otherwise the    *)
(* exact text that printing x produces; taking it writes nothing to the    *)
(* program's output; what __str__ prints while it runs is captured in the  *)
(* String, ahead of the text of the value __str__ returns.                 *)
C29_Stringify ==
    [][CallOn("x", "r = str(x)") =>
          /\ status' = "ok"
          /\ output' = output
          /\ closure'["r"].kind = "String"
          /\ TextOf(closure["x"]) # "?" => closure'["r"].str = TextOf(closure["x"])
          /\ PrintedLine(Execute(PrintStmt(<<Var("x")>>), closure, Here))
                = output \o closure'["r"].str \o "\n"]_vars

C29_Witness ==
    /\ last = "r = str(x)"
    /\ status = "ok"
    /\ IsInstance(closure["x"]) /\ instances[closure["x"].ref].cls = "Chatty"
    /\ closure["r"] = String("side\nval")
    /\ output = "a\n"
(* The holders that own the descriptor of a class: the ClassDefinition     *)
(* node while its cls_ is not empty, every closure entry bound to the      *)
(* class, and the parser's table of declared classes.                      *)
declared_classes_ == DOMAIN ClassTable

ScopeHolds(cls) == \E name \in DOMAIN closure : closure[name] = ClassValue(cls)

Alive(cls) == cls \in cls_ \/ ScopeHolds(cls) \/ cls \in declared_classes_

HasInstance(cls) == \E node \in DOMAIN instances : instances[node].cls = cls

(* C25: every class descriptor that an instance refers to is owned by some *)
(* holder, executing a ClassDefinition (once or again) has defined         *)
(* behaviour, and every ClassDefinition node still holds its descriptor    *)
(* after it has executed.                                                  *)
C25_DescriptorsAlive ==
    /\ \A cls \in DOMAIN ClassTable : HasInstance(cls) => Alive(cls)
    /\ status # "undefined"
    /\ \A cls \in DOMAIN ClassTable : cls \in cls_

(* r is the exact result of the operation on a and b.  The operands of the *)
(* model are ints, so every exact result fits 64 bits; one that does not   *)
(* fit an int is equal to no value of the Number type.                     *)
ExactResult(op, a, b, r) ==
    CASE op = "+" -> AddFits(a, b) /\ r = a + b
      [] op = "-" -> SubFits(a, b) /\ r = a - b
      [] op = "*" -> MultFits(a, b) /\ r = a * b

ExactOn(op) ==
    (/\ CallOn("y", "r = x " \o op \o " y")
     /\ BothOf(closure["x"], closure["y"], "Number"))
    => /\ status' = "ok"
       /\ closure'["r"].kind = "Number"
       /\ ExactResult(op, closure["x"].num, closure["y"].num, closure'["r"].num)

(* C30: Number is a signed 64-bit integer: the sum, difference and product *)
(* of two Numbers whose exact result fits 64 bits is that exact result,    *)
(* with no wrap-around and no error at the 32-bit boundary.                *)
C30_Number64 == [][\A op \in {"+", "-", "*"} : ExactOn(op)]_vars

(* C24: after every pass of the lexer the depth counter equals the number  *)
(* of Indent tokens emitted so far minus the number of Dedent tokens       *)
(* emitted so far, and it is never negative, whatever the space counts.    *)
C24_DepthIsBalance ==
    /\ global_indent_counter_ = CountType(tokens_, "Indent") - CountType(tokens_, "Dedent")
    /\ global_indent_counter_ >= 0

(* A line with an odd number of spaces that closes two levels at once.     *)
C24_Witness ==
    /\ NonBlankLine
    /\ last_indent.spaces = 1
    /\ last_indent.before = 2
    /\ last_indent.dedents = 2
    /\ global_indent_counter_ = 0
    /\ CountType(tokens_, "Indent") = 2

(* The literal that opens at the first byte of the input, read off the     *)
(* input itself from position i on: whether it is well formed, and the     *)
(* text it denotes.                                                        *)
RECURSIVE Literal(_, _)
Literal(i, text) ==
    IF i > Len(input) THEN [ok |-> FALSE, text |-> text]
    ELSE IF input[i] = input[1] THEN [ok |-> TRUE, text |-> text]
    ELSE IF input[i] = "\\" THEN
        IF i + 1 > Len(input) THEN [ok |-> FALSE, text |-> text]
        ELSE CASE input[i + 1] = "n" -> Literal(i + 2, text \o "\n")
               [] input[i + 1] = "t" -> Literal(i + 2, text \o "\t")
               [] input[i + 1] = "r" -> Literal(i + 2, text \o "\r")
               [] input[i + 1] \in {"'", "\"", "\\"} -> Literal(i + 2, text \o input[i + 1])
               [] OTHER -> [ok |-> FALSE, text |-> text]
    ELSE IF input[i] \in {"\n", "\r"} THEN [ok |-> FALSE, text |-> text]
    ELSE Literal(i + 1, text \o input[i])

OpensWithLiteral == input # <<>> /\ input[1] \in {"'", "\""}

(* C28: when the input opens with a string literal and lexing has ended,   *)
(* a malformed literal (unknown escape, backslash at end of input, raw     *)
(* newline or carriage return, no closing quote) has ended it with a       *)
(* LexerError and no token sequence, and a well-formed one has given one   *)
(* String token holding the text with each escape replaced.                *)
C28_MalformedLiteral ==
    (OpensWithLiteral /\ pc \in {"Done", "Error"}) =>
        IF Literal(2, "").ok
        THEN Len(tokens_) >= 1 /\ tokens_[1] = StringTok(Literal(2, "").text)
        ELSE pc = "Error" /\ err = "LexerError"

====
